---- MODULE Spec2Model ----
(***************************************************************************)
(* Model of the MTR normalization pipeline: MTRProcessor (orchestration,   *)
(* batches, semaphore), the three agents (research, OKPD2 classification,  *)
(* quality validation) and the rule engine that picks a rejection reason.  *)
(*                                                                         *)
(* Conventions.                                                            *)
(*  - A Python str is a sequence of atoms (an atom is a fixed phrase of a  *)
(*    message template, or one interpolated word).  Cyrillic text is       *)
(*    transliterated to ASCII.  Substring search (`tok in s`) and          *)
(*    str.lower() are computed from the tables Infixes and LowerAtom.      *)
(*  - None is the one-atom tuple <<"<None>">>; a JSON value that is not a  *)
(*    str where a str is expected is <<"<int>">>.                          *)
(*  - A ProductCategory member is written by its name; as a dictionary key *)
(*    it is MemberKey(name), which differs from the str key StrKey(name).  *)
(***************************************************************************)
EXTENDS Integers, Sequences, FiniteSets, TLC

VARIABLES
    \* ---- MTRProcessor.process_file ----
    products,        \* the parsed list: product index -> Product
    mainPc,          \* position of process_file
    batches,         \* the batches of the run, in processing order (set by Categorize)
    batchIdx,        \* number of batches handed to _process_batch so far
    batch,           \* the ProcessingBatch inside _process_batch
    semaphore,       \* value of the asyncio.Semaphore of the current batch
    all_results,     \* list of product indices, in the order extended
    result,          \* what process_file returns
    \* ---- item pipelines (one task per product of the current batch) ----
    pc,              \* position of each item pipeline
    hung,            \* the _call_llm in progress never returns
    extracted,       \* extracted_info
    research,        \* research_result.__dict__
    all_candidates,  \* candidates collected by _search_okpd2_codes before the LLM call
    okpd2,           \* okpd2_result.__dict__
    okpd2_cache,     \* OKPD2ClassifierAgent.okpd2_cache
    \* ---- history (observation only) ----
    returned_reason, \* per product: the rejection_reason validation returned for it
    returned_okpd2, \* per product: the classification the validation of it was given
    oracleFailed,    \* per product: an oracle call of it failed on all its retries
    raised,          \* per product: text of the exception its pipeline raised, or None
    trail,           \* per product: the statuses assigned to it, in order
    cache_writes,    \* the search terms stored into okpd2_cache, in the order stored
    \* ---- the rule engine applied to drawn inputs ----
    vIn,             \* input drawn for QualityValidationAgent.process
    vOut,            \* its ValidationResult
    dIssues,         \* issue list drawn for _determine_rejection_reason
    dReason,         \* its result
    \* ---- the selector and the detector applied to drawn inputs ----
    sIn,             \* input drawn for _select_best_code
    sOut,            \* its OKPD2Result
    nIn,             \* name drawn for detect_category
    nOut,            \* its result, <<category, confidence>>
    \* ---- grouping, batching and the code level applied to drawn inputs ----
    bIn,             \* parsed product list drawn for _categorize_products
    bOut,            \* the products and the batches made of them
    lIn,             \* code drawn for _get_code_level
    lOut,            \* its result
    \* ---- AsyncMTRProcessor: several files on one processor ----
    mode,            \* how the files are run: one after another, or gathered
    fProducts,       \* per file: the parsed list, index -> Product
    fPc,             \* per file: position of its process_file
    fBatches,        \* per file: its batches, in processing order
    fBatchIdx,       \* per file: number of its batches handed to _process_batch
    fSemaphore,      \* per file: value of the Semaphore of its current batch
    fItem,           \* per file: position of each item pipeline
    fResults,        \* per file: all_results
    stats,           \* MTRProcessor.stats, the one dict of the processor
    fResult          \* per file: status of the dict process_file returned, or None

pipeVars == <<products, mainPc, batches, batchIdx, batch, semaphore, all_results, result,
              pc, hung, extracted, research, all_candidates, okpd2, returned_reason, returned_okpd2,
              okpd2_cache, oracleFailed, raised, trail, cache_writes>>

ruleVars == <<vIn, vOut, dIssues, dReason>>

fnVars == <<sIn, sOut, nIn, nOut, bIn, bOut, lIn, lOut>>

multiVars == <<mode, fProducts, fPc, fBatches, fBatchIdx, fSemaphore, fItem, fResults,
               stats, fResult>>

vars == <<pipeVars, ruleVars, fnVars, multiVars>>

-----------------------------------------------------------------------------
(* Python values *)

None == <<"<None>">>
IntObj == <<"<int>">>
\* None where a dict (or no dict) is passed: Optional[Dict]
NoneDict == [none |-> TRUE]
IsStr(v) == v # None /\ v # IntObj

\* str.lower() of one atom: only the atoms that hold upper-case letters change
LowerAtom(a) ==
    CASE a = "SHT" -> "sht"
      [] a = "Proizvoditel" -> "proizvoditel"
      [] a = "N/A" -> "n/a"
      [] a = "Unknown" -> "unknown"
      [] a = "OKPD2" -> "okpd2"
      [] a = "Datchik" -> "datchik"
      [] a = "OVEN" -> "oven"
      [] a = "PD100I-DG0.25" -> "pd100i-dg0.25"
      [] a = "Krug" -> "krug"
      [] a = "Podshipnik" -> "podshipnik"
      [] a = "SKF" -> "skf"
      [] a = "6205-2RS" -> "6205-2rs"
      [] a = "Prochie" -> "prochie"
      [] a = "Datchiki" -> "datchiki"
      [] a = "Pribory" -> "pribory"
      [] a = "Prokat" -> "prokat"
      [] a = "Molotki" -> "molotki"
      [] a = "Instrument" -> "instrument"
      [] a = "Shiny" -> "shiny"
      [] a = "Podshipniki" -> "podshipniki"
      [] a = "PD100I-DG0.25-111-0.5" -> "pd100i-dg0.25-111-0.5"
      [] a = "V1-II" -> "v1-ii"
      [] a = "10MM" -> "10mm"
      [] a = "GOST" -> "gost"
      [] a = "Molotok" -> "molotok"
      [] a = "0.5KG" -> "0.5kg"
      [] a = "320MM" -> "320mm"
      [] a = "Shina" -> "shina"
      [] a = "Nokian" -> "nokian"
      [] a = "Tyres" -> "tyres"
      [] a = "Hakkapeliitta" -> "hakkapeliitta"
      [] a = "R5" -> "r5"
      [] a = "SUV" -> "suv"
      [] a = "R17" -> "r17"
      [] a = "PD100" -> "pd100"
      [] a = "PMP" -> "pmp"
      [] OTHER -> a

Lower(s) == [i \in 1..Len(s) |-> LowerAtom(s[i])]

\* The probe strings that occur in an atom (case-sensitive substring search).  "<d>"
\* stands for a run of digits, "pd<d>" for the regex PD\d+ .
Infixes(a) ==
    CASE a = "OKPD2" -> {"OKPD2"}
      [] a = "Otsutstvuet kod OKPD2" -> {"OKPD2"}
      [] a = "Nevernyj format koda OKPD2:" -> {"OKPD2"}
      [] a = "Nedostatochnyj uroven detalizacii OKPD2 (uroven" -> {"OKPD2"}
      [] a = "Nizkaya uverennost v kode OKPD2" -> {"OKPD2"}
      [] a = "Kod OKPD2" -> {"OKPD2"}
      [] a = "Otsutstvuyut tehnicheskie harakteristiki" -> {"harakteristik"}
      [] a = "Otsutstvuyut obyazatelnye harakteristiki:" -> {"harakteristik"}
      [] a = "Nedostatochno harakteristik" -> {"harakteristik"}
      [] a = "Najdeny nezapolnennye harakteristiki:" -> {"harakteristik"}
      [] a = "Obnaruzhena variativnost po cvetu" -> {"variativnost", "cvet"}
      [] a = "Obnaruzhena variativnost po parametru:" -> {"variativnost"}
      [] a = "Nevozmozhno opredelit proizvoditelya" -> {"proizvoditel"}
      [] a = "proizvoditel" -> {"proizvoditel"}
      [] a = "diametr" -> {"diametr"}
      [] a = "razmer" -> {"razmer"}
      [] a = "cvet" -> {"cvet"}
      [] a = "cveta" -> {"cvet"}
      [] a = "artikul" -> {"artikul"}
      [] a = "-" -> {"-"}
      [] a = "10-20" -> {"-", "<d>"}
      [] a = "prochie" -> {"prochie"}
      [] a = "datchik" -> {"datchik"}
      [] a = "datchiki" -> {"datchik", "datchiki"}
      [] a = "davleniya" -> {"davlen", "davleniya"}
      [] a = "oven" -> {"oven"}
      [] a = "pd100i-dg0.25" -> {"pd<d>", "<d>", "-", "pd100i-dg0.25"}
      [] a = "krug" -> {"krug"}
      [] a = "kruglyj" -> {"krug", "kruglyj"}
      [] a = "stalnoj" -> {"stal", "stalnoj"}
      [] a = "2590" -> {"<d>", "2590"}
      [] a = "goryachekatanyj" -> {"goryachekatan", "goryachekatanyj"}
      [] a = "prokat" -> {"prokat"}
      [] a = "podshipnik" -> {"podshipnik"}
      [] a = "podshipniki" -> {"podshipnik", "podshipniki"}
      [] a = "sharikovyj" -> {"sharikovyj"}
      [] a = "6205-2rs" -> {"<d>", "-", "6205-2rs"}
      [] a = "molotok" -> {"molot", "molotok"}
      [] a = "molotki" -> {"molot", "molotki"}
      [] a = "shina" -> {"shina", "shin[ay]"}
      [] a = "shiny" -> {"shin[ay]", "shiny"}
      [] a = "pokryshki" -> {"pokrysh"}
      [] a = "datchik davleniya" -> {"datchik", "davlen", "davleniya"}
      [] a = "preobrazovatel davleniya" -> {"preobrazovatel", "davlen", "davleniya"}
      [] a = "krug stalnoj" -> {"krug", "stal", "stalnoj"}
      [] a = "prokat kruglyj" -> {"prokat", "krug", "kruglyj"}
      [] a = "pokryshka avtomobilnaya" -> {"pokrysh", "pokryshka"}
      [] a = "pd100i-dg0.25-111-0.5" -> {"pd<d>", "<d>", "-", "pd100i-dg0.25-111-0.5"}
      [] a = "v1-ii" -> {"<d>", "-", "v1-ii"}
      [] a = "10mm" -> {"<d>", "<d><s>mm", "10mm"}
      [] a = "gost" -> {"gost"}
      [] a = "2590-2006" -> {"<d>", "2590", "-", "2590-2006"}
      [] a = "slesarnyj" -> {"slesarn", "slesarnyj"}
      [] a = "0.5kg" -> {"<d>", "<d><s>kg", "0.5kg"}
      [] a = "320mm" -> {"<d>", "<d><s>mm", "320mm"}
      [] a = "stal" -> {"stal"}
      [] a = "uglerodistaya" -> {"uglerodistaya"}
      [] a = "zimnyaya" -> {"zimn", "zimnyaya"}
      [] a = "nokian" -> {"nokian"}
      [] a = "tyres" -> {"tyres"}
      [] a = "hakkapeliitta" -> {"hakkapeliitta"}
      [] a = "r5" -> {"<d>", "r5"}
      [] a = "suv" -> {"suv"}
      [] a = "265/65" -> {"<d>", "265/65"}
      [] a = "r17" -> {"<d>", "r17"}
      [] a = "skf" -> {"skf"}
      [] a = "pd100" -> {"pd<d>", "<d>", "pd100"}
      [] a = "pmp" -> {"pmp"}
      [] a = "steel" -> {"steel"}
      [] a = "circle" -> {"circle"}
      [] a = "sensor" -> {"sensor"}
      [] a = "pressure" -> {"pressure"}
      [] a = "pressure!sensor" -> {"pressure", "sensor"}
      [] a = "hammer" -> {"hammer"}
      [] a = "stanley" -> {"stanley"}
      [] a = "tire" -> {"tire"}
      [] OTHER -> {}

\* The probe strings that match across the blank between two consecutive words: the
\* regexes with \s* between their parts.
Across(a, b) ==
    CASE a = "gost" /\ b = "2590-2006" -> {"gost<s>2590"}
      [] a = "gost" /\ b = "2590" -> {"gost<s>2590"}
      [] a = "265/65" /\ b = "r17" -> {"<ddd>/<dd><s>r<dd>"}
      [] a = "pressure" /\ b = "sensor" -> {"pressure<s>sensor"}
      [] OTHER -> {}

\* `tok in s`
Contains(s, tok) == \E i \in 1..Len(s) : tok \in Infixes(s[i])

\* " ".join(list of str)
RECURSIVE Join(_)
Join(list) == IF list = <<>> THEN <<>> ELSE Head(list) \o Join(Tail(list))

-----------------------------------------------------------------------------
(* models.py, config.py *)

ProductCategory == <<"PRESSURE_SENSOR", "STEEL_CIRCLE", "HAMMER", "TIRE", "UNKNOWN">>
UNKNOWN == "UNKNOWN"

ProcessingStatus == {"PENDING", "PROCESSING", "COMPLETED", "FAILED", "REJECTED"}
Terminal == {"COMPLETED", "FAILED", "REJECTED"}

\* dictionary keys: an Enum member is equal only to itself, never to a str
MemberKey(name) == <<"ProductCategory", name>>
StrKey(name) == <<"str", name>>

\* PRODUCT_CATEGORIES: keyed by str
PRODUCT_CATEGORIES_keys ==
    {StrKey("PRESSURE_SENSOR"), StrKey("STEEL_CIRCLE"), StrKey("HAMMER"), StrKey("TIRE")}

okpd2_prefix(name) ==
    CASE name = "PRESSURE_SENSOR" -> <<"26", "51", "52">>
      [] name = "STEEL_CIRCLE" -> <<"24", "10", "75">>
      [] name = "HAMMER" -> <<"25", "73", "30">>
      [] name = "TIRE" -> <<"22", "11", "11">>

\* `category in PRODUCT_CATEGORIES`, category a ProductCategory member
InProductCategories(category) == MemberKey(category) \in PRODUCT_CATEGORIES_keys

\* COMPLIANCE_RULES["unit_validation"]
unit_validation(key) ==
    CASE key = "datchik" -> << <<"shtuka">>, <<"sht">>, <<"sht.">> >>
      [] key = "krug" -> << <<"tonna">>, <<"t">>, <<"tn">> >>
      [] key = "molotok" -> << <<"shtuka">>, <<"sht">>, <<"sht.">> >>
      [] key = "shina" -> << <<"shtuka">>, <<"sht">>, <<"sht.">> >>

SeqToSet(s) == {s[i] : i \in 1..Len(s)}

-----------------------------------------------------------------------------
(* QualityValidationAgent *)

\* _load_validation_criteria: keyed by ProductCategory member
validation_criteria_keys ==
    {MemberKey("PRESSURE_SENSOR"), MemberKey("STEEL_CIRCLE"),
     MemberKey("HAMMER"), MemberKey("TIRE")}

validation_criteria(category) ==
    CASE category = "PRESSURE_SENSOR" ->
           [required_specs |-> <<"measurement_range", "accuracy_class", "output_signal">>,
            unit_options |-> << <<"shtuka">>, <<"sht">>, <<"sht.">> >>,
            min_specs_count |-> 5]
      [] category = "STEEL_CIRCLE" ->
           [required_specs |-> <<"diameter_mm", "steel_grade", "standard">>,
            unit_options |-> << <<"tonna">>, <<"t">>, <<"tn">> >>,
            min_specs_count |-> 4]
      [] category = "HAMMER" ->
           [required_specs |-> <<"striker_weight_kg", "length_mm", "type">>,
            unit_options |-> << <<"shtuka">>, <<"sht">>, <<"sht.">> >>,
            min_specs_count |-> 4]
      [] category = "TIRE" ->
           [required_specs |-> <<"width", "profile", "diameter", "season">>,
            unit_options |-> << <<"shtuka">>, <<"sht">>, <<"sht.">> >>,
            min_specs_count |-> 5]


\* dict helpers: a dict is a sequence of <<key, value>> pairs in insertion order
Keys(d) == {d[i][1] : i \in 1..Len(d)}
Get(d, k, default) ==
    IF k \in Keys(d) THEN d[CHOOSE i \in 1..Len(d) : d[i][1] = k][2] ELSE default

\* Python truth value of a JSON value: None and "" are falsy
Truthy(v) == v # None /\ v # <<>>

\* filter a sequence, keeping order
RECURSIVE SelectKeys(_, _)
SelectKeys(d, keep) ==
    IF d = <<>> THEN <<>>
    ELSE (IF Head(d)[1] \in keep THEN <<Head(d)[1]>> ELSE <<>>) \o SelectKeys(Tail(d), keep)

RECURSIVE SelectAtoms(_, _)
SelectAtoms(list, keep) ==
    IF list = <<>> THEN <<>>
    ELSE (IF Head(list) \in keep THEN <<Head(list)>> ELSE <<>>) \o SelectAtoms(Tail(list), keep)

\* number of decimal digits of a code segment, -1 when it is not all digits
DigitCount(seg) ==
    CASE seg \in {"26", "51", "52", "24", "10", "75", "25", "73", "30", "22", "11", "00",
                  "28", "15"} -> 2
      [] seg \in {"110", "111", "123", "000"} -> 3
      [] seg \in {"5"} -> 1
      [] OTHER -> -1

\* `$` of re.match without re.MULTILINE matches at the end of the string and also
\* just before a newline that ends it: the last segment is matched without that newline
BeforeFinalNewline(seg) ==
    CASE seg = "110\n" -> "110"
      [] seg = "52\n" -> "52"
      [] OTHER -> seg

\* _is_valid_okpd2_format: ^\d{2}\.\d{2}\.\d{2}(\.\d{3})?$ ; a code is its dot-separated segments
is_valid_okpd2_format(code) ==
    /\ Len(code) \in {3, 4}
    /\ \A i \in 1..Len(code) :
          DigitCount(IF i = Len(code) THEN BeforeFinalNewline(code[i]) ELSE code[i])
              = (IF i = 4 THEN 3 ELSE 2)

\* str.startswith for codes
StartsWith(code, prefix) ==
    /\ Len(prefix) <= Len(code)
    /\ \A i \in 1..Len(prefix) : code[i] = prefix[i]

\* A float f is held as round(100*f), plus or minus 1 when the binary float lies
\* above or below the decimal value (0.6000000000000001 is 61), so that comparisons
\* of floats come out as in Python.
HALF == 50

\* _validate_okpd2
validate_okpd2_mismatch(okpd2_result, category) ==
    IF InProductCategories(category)
    THEN (IF ~StartsWith(okpd2_result.code, okpd2_prefix(category))
          THEN << <<"Kod OKPD2">> \o okpd2_result.code
                  \o <<"ne sootvetstvuet kategorii", category>> >>
          ELSE <<>>)
    ELSE <<>>

validate_okpd2(okpd2_result, category) ==
    IF okpd2_result = NoneDict
    THEN << <<"Otsutstvuet kod OKPD2">> >>
    ELSE (IF ~is_valid_okpd2_format(okpd2_result.code)
          THEN << <<"Nevernyj format koda OKPD2:">> \o okpd2_result.code >> ELSE <<>>)
      \o (IF okpd2_result.level < 3
          THEN << <<"Nedostatochnyj uroven detalizacii OKPD2 (uroven",
                    ToString(okpd2_result.level), ")">> >> ELSE <<>>)
      \o (IF okpd2_result.confidence < HALF
          THEN << <<"Nizkaya uverennost v kode OKPD2", "(",
                    ToString(okpd2_result.confidence), ")">> >> ELSE <<>>)
      \o validate_okpd2_mismatch(okpd2_result, category)

\* placeholder_patterns, compared with str(value).lower()
placeholder_patterns == {<<"n/d">>, <<"n/a">>, <<"neizvestno">>, <<"unknown">>, <<"-">>, <<>>}

IsPlaceholder(v) == v # None /\ v # IntObj /\ Lower(v) \in placeholder_patterns

\* _validate_specifications
validate_specifications(research_result, category) ==
    IF research_result = NoneDict
    THEN << <<"Otsutstvuyut tehnicheskie harakteristiki">> >>
    ELSE IF MemberKey(category) \notin validation_criteria_keys
    THEN << <<"Net kriteriev validacii dlya dannoj kategorii">> >>
    ELSE
      LET specs == research_result.specifications
          criteria == validation_criteria(category)
          missing_required ==
              SelectAtoms(criteria.required_specs,
                          {k \in SeqToSet(criteria.required_specs) :
                              k \notin Keys(specs) \/ ~Truthy(Get(specs, k, None))})
          actual_count == Cardinality({i \in 1..Len(specs) : Truthy(specs[i][2])})
          placeholders_found ==
              SelectKeys(specs, {k \in Keys(specs) : IsPlaceholder(Get(specs, k, None))})
      IN (IF missing_required # <<>>
          THEN << <<"Otsutstvuyut obyazatelnye harakteristiki:">> \o missing_required >>
          ELSE <<>>)
      \o (IF actual_count < criteria.min_specs_count
          THEN << <<"Nedostatochno harakteristik", "(", ToString(actual_count), "iz minimum",
                    ToString(criteria.min_specs_count), ")">> >>
          ELSE <<>>)
      \o (IF placeholders_found # <<>>
          THEN << <<"Najdeny nezapolnennye harakteristiki:">> \o placeholders_found >>
          ELSE <<>>)

\* _validate_unit: the issue, or None
validate_unit(product, category) ==
    IF MemberKey(category) \notin validation_criteria_keys
    THEN None
    ELSE LET valid_units == validation_criteria(category).unit_options
         IN IF Lower(product.original_unit) \notin {Lower(u) : u \in SeqToSet(valid_units)}
            THEN <<"Edinica izmereniya">> \o product.original_unit
                 \o <<"ne sootvetstvuet kategorii", category, "Ozhidaetsya:">>
                 \o Join(valid_units)
            ELSE None

\* re.search(r'a.*b', name, re.IGNORECASE): a in one word, b in a later word
SearchPair(name, a, b) ==
    \E i, j \in 1..Len(name) :
        i < j /\ a \in Infixes(LowerAtom(name[i])) /\ b \in Infixes(LowerAtom(name[j]))

color_patterns == {<<"artikul", "cvet">>, <<"article", "color">>,
                   <<"kod", "cvet">>, <<"razlich", "cvet">>}

size_fields == <<"diameter", "width", "length", "size">>

HasRangeToken(v) ==
    IsStr(v) /\ (Contains(v, "-") \/ Contains(v, "do") \/ Contains(v, "ot"))

RECURSIVE SizeIssues(_, _)
SizeIssues(specs, fields) ==
    IF fields = <<>> THEN <<>>
    ELSE (IF HasRangeToken(Get(specs, Head(fields), <<>>))
          THEN << <<"Obnaruzhena variativnost po parametru:", Head(fields)>> >>
          ELSE <<>>) \o SizeIssues(specs, Tail(fields))

\* _check_variability
check_variability(product, research_result) ==
    (IF \E pat \in color_patterns : SearchPair(product.original_name, pat[1], pat[2])
     THEN << <<"Obnaruzhena variativnost po cvetu">> >> ELSE <<>>)
    \o (IF research_result # NoneDict
        THEN SizeIssues(research_result.specifications, size_fields) ELSE <<>>)

\* number of characters of an atom; every atom of at most 3 characters is listed
CharLen(a) ==
    CASE a \in {"t"} -> 1
      [] a \in {"A1", "tn", "kg", "R5"} -> 2
      [] a \in {"sht", "SHT", "SKF", "SUV", "R17"} -> 3
      [] OTHER -> 4

StrLen(s) == IF s = <<>> THEN 0 ELSE IF Len(s) = 1 THEN CharLen(s[1]) ELSE 4

generic_terms == {"prochie", "drugie", "raznye", "various", "other", "misc"}

\* _apply_business_rules; the exception it raises, if any: None, or the text
apply_business_rules_raises(research_result) ==
    IF research_result = NoneDict THEN None
    ELSE IF research_result.manufacturer = IntObj
         THEN <<"'int' object has no attribute 'lower'">>
    ELSE IF research_result.model = IntObj
         THEN <<"object of type 'int' has no len()">>
    ELSE None

apply_business_rules(product, research_result) ==
    (IF research_result # NoneDict
        /\ (~Truthy(research_result.manufacturer)
            \/ Lower(research_result.manufacturer) \in {<<"unknown">>, <<"neizvestno">>})
     THEN << <<"Nevozmozhno opredelit proizvoditelya">> >> ELSE <<>>)
    \o (IF research_result # NoneDict /\ Truthy(research_result.model)
           /\ StrLen(research_result.model) < 3
        THEN << <<"Model/artikul slishkom korotkij">> >> ELSE <<>>)
    \o (IF \E i \in 1..Len(product.original_name) :
              Infixes(LowerAtom(product.original_name[i])) \cap generic_terms # {}
        THEN << <<"Slishkom obshee opisanie produkta">> >> ELSE <<>>)


\* the texts _determine_rejection_reason returns
REASON_OKPD2 == <<"Ne podlezhit normalizacii: otsutstvuet kod OKPD2">>
REASON_MANUFACTURER == <<"Ne podlezhit normalizacii: nevozmozhno opredelit proizvoditelya">>
REASON_COLOR == <<"Ne podlezhit normalizacii: artikul ne sootvetstvuet cvetu">>
REASON_SIZE == <<"Ne podlezhit normalizacii: variativnost po razmeru">>
REASON_VARIABILITY == <<"Ne podlezhit normalizacii: variativnost harakteristik">>
REASON_SPECS == <<"Ne podlezhit normalizacii: nepolnye tehnicheskie harakteristiki">>
REASON_PREFIX == <<"Ne podlezhit normalizacii:">>

\* any(tok in issue for issue in issues), scanning the list as the generator does
RECURSIVE AnyContains(_, _)
AnyContains(issues, tok) ==
    IF issues = <<>> THEN FALSE
    ELSE IF Contains(Head(issues), tok) THEN TRUE
    ELSE AnyContains(Tail(issues), tok)

\* any(tok in issue.lower() for issue in issues)
RECURSIVE AnyContainsLower(_, _)
AnyContainsLower(issues, tok) ==
    IF issues = <<>> THEN FALSE
    ELSE IF Contains(Lower(Head(issues)), tok) THEN TRUE
    ELSE AnyContainsLower(Tail(issues), tok)

\* the variability branch (lines 322-329)
VariabilityReason(issues) ==
    IF Contains(Join(issues), "cvet") THEN REASON_COLOR
    ELSE IF Contains(Join(issues), "diametr") \/ Contains(Join(issues), "razmer")
    THEN REASON_SIZE
    ELSE REASON_VARIABILITY

determine_rejection_reason_ManufacturerFirst(issues) ==
    IF AnyContainsLower(issues, "proizvoditel") THEN REASON_MANUFACTURER
    ELSE IF AnyContains(issues, "OKPD2") THEN REASON_OKPD2
    ELSE IF AnyContains(issues, "variativnost") THEN VariabilityReason(issues)
    ELSE IF AnyContains(issues, "harakteristik") THEN REASON_SPECS
    ELSE REASON_PREFIX \o issues[1]

\* _determine_rejection_reason
determine_rejection_reason(issues) ==
    IF AnyContains(issues, "OKPD2") THEN REASON_OKPD2
    ELSE IF AnyContainsLower(issues, "proizvoditel") THEN REASON_MANUFACTURER
    ELSE IF AnyContains(issues, "variativnost") THEN VariabilityReason(issues)
    ELSE IF AnyContains(issues, "harakteristik") THEN REASON_SPECS
    ELSE REASON_PREFIX \o issues[1]

\* the fixed list _generate_suggestions returns when the oracle call fails
FALLBACK_SUGGESTIONS == << <<"Utochnit informaciyu u postavshika">>,
                           <<"Proverit katalog proizvoditelya">> >>

\* What an awaited _call_llm gives its caller: an exception (the retries are
\* exhausted, or json.loads rejects the text), or the parsed value.
LLM_FAILED == [failed |-> TRUE, json |-> <<>>]
Answer(v) == [failed |-> FALSE, json |-> v]

\* the suggestions without the except branch
generate_suggestions_NoFallback(response) ==
    SubSeq(response.json, 1, IF Len(response.json) < 3 THEN Len(response.json) ELSE 3)

\* _generate_suggestions: the answer holds the non-blank lines of the response
generate_suggestions(response) ==
    IF response.failed THEN FALLBACK_SUGGESTIONS
    ELSE SubSeq(response.json, 1, IF Len(response.json) < 3 THEN Len(response.json) ELSE 3)

ISSUE_CATEGORY == <<"Ne udalos opredelit kategoriyu produkta">>

collect_issues_NoCategoryIssue(product, category, research_result, okpd2_result) ==
    validate_okpd2(okpd2_result, category)
    \o validate_specifications(research_result, category)
    \o (IF validate_unit(product, category) # None
        THEN <<validate_unit(product, category)>> ELSE <<>>)
    \o check_variability(product, research_result)
    \o apply_business_rules(product, research_result)

\* the issue list process collects, steps 1-6 (lines 84-117)
collect_issues(product, category, research_result, okpd2_result) ==
    (IF category = UNKNOWN THEN <<ISSUE_CATEGORY>> ELSE <<>>)
    \o validate_okpd2(okpd2_result, category)
    \o validate_specifications(research_result, category)
    \o (IF validate_unit(product, category) # None
        THEN <<validate_unit(product, category)>> ELSE <<>>)
    \o check_variability(product, research_result)
    \o apply_business_rules(product, research_result)

verdict_AlwaysReason(issues) ==
    [is_valid |-> (Len(issues) = 0),
     issues |-> issues,
     rejection_reason |-> IF issues = <<>> THEN REASON_PREFIX
                          ELSE determine_rejection_reason(issues)]

\* lines 119-125: is_valid and rejection_reason from the issues
verdict(issues) ==
    [is_valid |-> (Len(issues) = 0),
     issues |-> issues,
     rejection_reason |-> IF Len(issues) # 0 THEN determine_rejection_reason(issues)
                          ELSE None]

\* QualityValidationAgent.process, given the suggestion oracle's response
process_validation(product, category, research_result, okpd2_result, response) ==
    LET v == verdict(collect_issues(product, category, research_result, okpd2_result))
    IN [is_valid |-> v.is_valid,
        issues |-> v.issues,
        rejection_reason |-> v.rejection_reason,
        suggestions |-> IF ~v.is_valid THEN generate_suggestions(response) ELSE <<>>]


-----------------------------------------------------------------------------
(* ProductResearchAgent *)

\* parsed JSON: an object (its items a dict) or an array
JsonDict(d) == [type |-> "dict", items |-> d]
JsonList == [type |-> "list", items |-> <<>>]

\* _extract_from_name
extract_from_name(response) == IF response.failed THEN JsonDict(<<>>) ELSE response.json

\* spec_data.get raises inside the try when spec_data is no dict
AnalysisFailed(response) == response.failed \/ response.json.type # "dict"

research_raises_Propagates(extracted_info, response) ==
    IF response.failed THEN <<"RetryError">>
    ELSE IF response.json.type # "dict" /\ extracted_info.type # "dict"
    THEN <<"'list' object has no attribute 'get'">>
    ELSE None

\* the exception process raises, if any: the except branch of _analyze_and_structure
\* calls extracted_info.get
research_raises(extracted_info, response) ==
    IF AnalysisFailed(response) /\ extracted_info.type # "dict"
    THEN <<"'list' object has no attribute 'get'">>
    ELSE None

\* _analyze_and_structure
analyze_and_structure(extracted_info, response) ==
    IF AnalysisFailed(response)
    THEN [manufacturer |-> Get(extracted_info.items, "manufacturer", None),
          model |-> Get(extracted_info.items, "model", None),
          specifications |-> extracted_info.items,
          confidence |-> 30]
    ELSE [manufacturer |-> Get(response.json.items, "manufacturer", None),
          model |-> Get(response.json.items, "model", None),
          specifications |-> Get(response.json.items, "specifications", <<>>),
          confidence |-> Get(response.json.items, "confidence", 70)]

-----------------------------------------------------------------------------
(* OKPD2ClassifierAgent *)

stopwords == {"dlya", "with", "and", "ili", "the", "gost", "din"}

isdigit(a) == a \in {"2590", "2006", "320"} \/ DigitCount(a) > 0

\* category_terms of _generate_search_terms: keyed by ProductCategory member
category_terms(category) ==
    CASE category = "PRESSURE_SENSOR" -> << <<"datchik davleniya">>, <<"preobrazovatel davleniya">> >>
      [] category = "STEEL_CIRCLE" -> << <<"krug stalnoj">>, <<"prokat kruglyj">> >>
      [] category = "HAMMER" -> << <<"molotok">>, <<"instrument udarnyj">> >>
      [] category = "TIRE" -> << <<"shina">>, <<"pokryshka avtomobilnaya">> >>
      [] OTHER -> <<>>

\* PRODUCT_CATEGORIES[...]["keywords"]
keywords(category) ==
    CASE category = "PRESSURE_SENSOR" ->
           << <<"datchik">>, <<"davlen">>, <<"sensor">>, <<"pressure">>, <<"preobrazovatel">> >>
      [] category = "STEEL_CIRCLE" ->
           << <<"krug">>, <<"stal">>, <<"steel">>, <<"circle">>, <<"prokat">> >>
      [] category = "HAMMER" -> << <<"molot">>, <<"hammer">> >>
      [] category = "TIRE" -> << <<"shina">>, <<"tire">>, <<"rezina">>, <<"pokryshka">> >>

RECURSIVE KeyTerms(_)
KeyTerms(parts) ==
    IF parts = <<>> THEN <<>>
    ELSE (IF CharLen(Head(parts)) > 3 /\ ~isdigit(Head(parts))
             /\ LowerAtom(Head(parts)) \notin stopwords
          THEN << <<Head(parts)>> >> ELSE <<>>) \o KeyTerms(Tail(parts))

Prefix(s, n) == SubSeq(s, 1, IF Len(s) < n THEN Len(s) ELSE n)

\* list(dict.fromkeys(terms)): first occurrences, in order
RECURSIVE Unique(_, _)
Unique(list, seen) ==
    IF list = <<>> THEN <<>>
    ELSE IF Head(list) \in seen THEN Unique(Tail(list), seen)
    ELSE <<Head(list)>> \o Unique(Tail(list), seen \cup {Head(list)})

\* _generate_search_terms
generate_search_terms(product, research_result, category) ==
    Prefix(Unique(
        (IF InProductCategories(category) THEN keywords(category) ELSE <<>>)
        \o Prefix(KeyTerms(product.original_name), 3)
        \o (IF research_result # NoneDict /\ Truthy(research_result.manufacturer)
            THEN <<research_result.manufacturer>> ELSE <<>>)
        \o category_terms(category), {}), 5)

Cand(code, name, level) == [code |-> code, name |-> name, has_level |-> TRUE, level |-> level]

\* mock_codes of _scrape_classifikators
mock_keys == <<"datchik", "krug", "molotok", "shina">>

mock_codes(key) ==
    CASE key = "datchik" ->
           << Cand(<<"26", "51", "52", "110">>, <<"Datchiki", "davleniya">>, 4),
              Cand(<<"26", "51", "52">>, <<"Pribory", "dlya", "izmereniya", "davleniya">>, 3) >>
      [] key = "krug" ->
           << Cand(<<"24", "10", "75", "111">>, <<"Prokat", "kruglyj">>, 4),
              Cand(<<"24", "10", "75">>, <<"Prokat", "stalnoj">>, 3) >>
      [] key = "molotok" ->
           << Cand(<<"25", "73", "30", "123">>, <<"Molotki", "slesarnye">>, 4),
              Cand(<<"25", "73", "30">>, <<"Instrument", "ruchnoj">>, 3) >>
      [] key = "shina" ->
           << Cand(<<"22", "11", "11", "000">>, <<"Shiny", "dlya", "legkovyh", "avtomobilej">>, 4),
              Cand(<<"22", "11", "11">>, <<"Shiny", "i", "pokryshki">>, 3) >>

RECURSIVE ScrapeFrom(_, _)
ScrapeFrom(term, ks) ==
    IF ks = <<>> THEN <<>>
    ELSE IF Contains(Lower(term), Head(ks)) THEN mock_codes(Head(ks))
    ELSE ScrapeFrom(term, Tail(ks))

\* _scrape_classifikators
scrape_classifikators(search_term) == ScrapeFrom(search_term, mock_keys)

\* lines 104-115 of _search_okpd2_codes: the loop over the terms.  Returns the cache
\* after the loop, the candidates collected and the terms stored into the cache, in
\* order; a term that is no str makes search_term.lower() raise.  No step of the loop
\* suspends: _scrape_classifikators awaits nothing.
RECURSIVE SearchLoop_NoLookup(_, _, _)
SearchLoop_NoLookup(terms, cache, acc) ==
    IF terms = <<>>
    THEN [cache |-> cache, all_candidates |-> acc, exc |-> None, writes |-> <<>>]
    ELSE IF ~IsStr(Head(terms))
         THEN [cache |-> cache, all_candidates |-> acc,
               exc |-> <<"'int' object has no attribute 'lower'">>, writes |-> <<>>]
    ELSE LET rest == SearchLoop_NoLookup(
                         Tail(terms),
                         [t \in DOMAIN cache \cup {Head(terms)} |->
                             IF t = Head(terms) THEN scrape_classifikators(Head(terms))
                             ELSE cache[t]],
                         acc \o scrape_classifikators(Head(terms)))
         IN [rest EXCEPT !.writes = <<Head(terms)>> \o @]

RECURSIVE SearchLoop(_, _, _)
SearchLoop(terms, cache, acc) ==
    IF terms = <<>>
    THEN [cache |-> cache, all_candidates |-> acc, exc |-> None, writes |-> <<>>]
    ELSE IF Head(terms) \in DOMAIN cache
         THEN SearchLoop(Tail(terms), cache, acc \o cache[Head(terms)])
    ELSE IF ~IsStr(Head(terms))
         THEN [cache |-> cache, all_candidates |-> acc,
               exc |-> <<"'int' object has no attribute 'lower'">>, writes |-> <<>>]
    ELSE LET rest == SearchLoop(Tail(terms),
                                cache @@ (Head(terms) :> scrape_classifikators(Head(terms))),
                                acc \o scrape_classifikators(Head(terms)))
         IN [rest EXCEPT !.writes = <<Head(terms)>> \o @]

\* _get_llm_suggestions: the answer holds the parsed JSON list
get_llm_suggestions(response) == IF response.failed THEN <<>> ELSE response.json

\* lines 121-129: deduplicate by code
RECURSIVE Dedup(_, _)
Dedup(cands, seen_codes) ==
    IF cands = <<>> THEN <<>>
    ELSE IF Head(cands).code \in seen_codes THEN Dedup(Tail(cands), seen_codes)
    ELSE <<Head(cands)>> \o Dedup(Tail(cands), seen_codes \cup {Head(cands).code})

\* candidate["code"] of a dict without that key
dedup_raises(cands) ==
    IF \E i \in 1..Len(cands) : cands[i].code = None THEN <<"'code'">> ELSE None

\* _get_code_level
get_code_level(code) ==
    IF Len(code) >= 3 /\ code[3] # "00"
    THEN (IF Len(code) = 4 THEN 4 ELSE 3)
    ELSE IF Len(code) >= 2 /\ code[2] # "00" THEN 2
    ELSE 1

\* _get_parent_code
get_parent_code(code) ==
    IF Len(code) > 1
    THEN (IF Len(code) = 4 THEN SubSeq(code, 1, 3)
          ELSE IF Len(code) = 3 THEN SubSeq(code, 1, 2)
          ELSE IF Len(code) = 2 THEN SubSeq(code, 1, 1)
          ELSE None)
    ELSE None

\* float rounding of the sum that _score_candidate builds, by
\* <<level, prefix bonus, name matches (capped at 3), product_type bonus>>
RoundsUp == {<<0, 0, 1, 1>>, <<0, 1, 1, 1>>, <<1, 0, 1, 0>>, <<1, 0, 2, 1>>, <<2, 0, 0, 1>>,
             <<2, 0, 2, 0>>, <<3, 0, 0, 0>>, <<3, 0, 1, 0>>, <<3, 0, 1, 1>>, <<3, 0, 3, 0>>,
             <<3, 1, 0, 0>>, <<3, 1, 1, 0>>, <<3, 1, 1, 1>>, <<3, 1, 3, 0>>, <<3, 1, 3, 1>>,
             <<4, 1, 1, 0>>, <<4, 1, 1, 1>>, <<4, 1, 3, 0>>, <<5, 1, 1, 0>>}
RoundsDown == {<<1, 1, 2, 1>>, <<2, 0, 3, 1>>, <<2, 1, 0, 1>>, <<2, 1, 1, 0>>,
               <<2, 1, 2, 0>>, <<2, 1, 2, 1>>}

FloatSum(level, pre, m, pt) ==
    10 * (2 * level + 3 * pre + m + 2 * pt)
    + (IF <<level, pre, m, pt>> \in RoundsUp THEN 1
       ELSE IF <<level, pre, m, pt>> \in RoundsDown THEN -1 ELSE 0)

CandLevel(candidate) ==
    IF candidate.has_level THEN candidate.level ELSE get_code_level(candidate.code)

\* _score_candidate
score_candidate(candidate, product, category, research_result) ==
    LET level == CandLevel(candidate)
        pre == IF InProductCategories(category)
                  /\ StartsWith(candidate.code, okpd2_prefix(category)) THEN 1 ELSE 0
        name_lower == Lower(candidate.name)
        words == Lower(product.original_name)
        matches == Cardinality({i \in 1..Len(words) :
                                  CharLen(words[i]) > 3 /\ Contains(name_lower, words[i])})
        pt == 0   \* research_result.__dict__ has no key "product_type"
    IN FloatSum(level, pre, IF matches < 3 THEN matches ELSE 3, pt)


\* insertion before the elements of equal score
RECURSIVE InsertByScore_Unstable(_, _)
InsertByScore_Unstable(x, sorted) ==
    IF sorted = <<>> THEN <<x>>
    ELSE IF Head(sorted)[1] > x[1]
         THEN <<Head(sorted)>> \o InsertByScore_Unstable(x, Tail(sorted))
    ELSE <<x>> \o sorted

\* list.sort(key=score, reverse=True) is stable: equal scores keep their input order
RECURSIVE InsertByScore(_, _)
InsertByScore(x, sorted) ==
    IF sorted = <<>> THEN <<x>>
    ELSE IF Head(sorted)[1] >= x[1] THEN <<Head(sorted)>> \o InsertByScore(x, Tail(sorted))
    ELSE <<x>> \o sorted

RECURSIVE SortByScore(_, _)
SortByScore(list, acc) ==
    IF list = <<>> THEN acc ELSE SortByScore(Tail(list), InsertByScore(Head(list), acc))

\* _select_best_code
select_best_code(candidates, product, category, research_result) ==
    IF candidates = <<>>
    THEN (IF InProductCategories(category)
          THEN [code |-> okpd2_prefix(category),
                name |-> <<"Default classification for", category>>,
                level |-> 2, parent_code |-> None, confidence |-> 30,
                alternative_codes |-> <<>>]
          ELSE [code |-> <<"00", "00", "00">>, name |-> <<"Unclassified product">>,
                level |-> 1, parent_code |-> None, confidence |-> 10,
                alternative_codes |-> <<>>])
    ELSE
      LET scored_candidates ==
              SortByScore([i \in 1..Len(candidates) |->
                              <<score_candidate(candidates[i], product, category,
                                                research_result), candidates[i]>>], <<>>)
          best_score == scored_candidates[1][1]
          best_candidate == scored_candidates[1][2]
          rest == SubSeq(scored_candidates, 2,
                         IF Len(scored_candidates) < 4 THEN Len(scored_candidates) ELSE 4)
      IN [code |-> best_candidate.code,
          name |-> best_candidate.name,
          level |-> CandLevel(best_candidate),
          parent_code |-> get_parent_code(best_candidate.code),
          confidence |-> IF best_score < 100 THEN best_score ELSE 100,
          alternative_codes |->
              [i \in 1..Len(rest) |->
                  [code |-> rest[i][2].code, name |-> rest[i][2].name, score |-> rest[i][1]]]]

-----------------------------------------------------------------------------
(* SmartCategoryDetector *)

\* A name is a sequence of atoms: its words, which single blanks separate, and atoms
\* that stand for a run of whitespace (leading, trailing or between two words).
WhitespaceAtoms == {" ", "   "}

\* _normalize_text on one atom: a whitespace run collapses and is stripped, a character
\* outside [\w\s\-\+/\.\,] becomes a blank, every other atom is kept
NormalizeAtom(a) ==
    CASE a \in WhitespaceAtoms -> <<>>
      [] a = "pressure!sensor" -> <<"pressure", "sensor">>
      [] OTHER -> <<a>>

RECURSIVE normalize_text(_)
normalize_text(text) ==
    IF text = <<>> THEN <<>>
    ELSE NormalizeAtom(Head(text)) \o normalize_text(Tail(text))

\* the words in which an occurrence of a probe string ends, and those in which one starts
EndsAt(text, probe) ==
    {i \in 1..Len(text) : probe \in Infixes(LowerAtom(text[i]))}
    \cup {i \in 2..Len(text) : probe \in Across(LowerAtom(text[i - 1]), LowerAtom(text[i]))}

StartsAt(text, probe) ==
    {i \in 1..Len(text) : probe \in Infixes(LowerAtom(text[i]))}
    \cup {i \in 1..(Len(text) - 1) :
             probe \in Across(LowerAtom(text[i]), LowerAtom(text[i + 1]))}

\* A compiled pattern is <<kind, A, B>>, A and B the sets of probe strings of its
\* alternatives: "one" is (a1|a2|...), "then" is (a1|a2|...).*(b1|b2|...).  The probes are
\* lower-case (re.IGNORECASE); "<s>" is \s*, "<d>" is \d+.
patterns(category) ==
    CASE category = "PRESSURE_SENSOR" ->
           {<<"then", {"datchik"}, {"davlen"}>>,
            <<"one", {"pressure<s>sensor"}, {}>>,
            <<"then", {"preobrazovatel"}, {"davlen"}>>,
            <<"one", {"pd<d>"}, {}>>,
            <<"then", {"endress+hauser", "oven", "danfoss", "siemens"}, {"davlen"}>>,
            <<"one", {"pmp", "pmc", "ptp", "cerabar", "deltabar"}, {}>>,
            <<"one", {"<d><s>mpa(ru)", "<d><s>mpa", "<d><s>kpa(ru)", "<d><s>kpa",
                      "<d><s>bar(ru)", "<d><s>bar"}, {}>>}
      [] category = "STEEL_CIRCLE" ->
           {<<"then", {"krug"}, {"stal"}>>,
            <<"then", {"steel"}, {"circle"}>>,
            <<"then", {"prokat"}, {"krug"}>>,
            <<"then", {"goryachekatan"}, {"krug"}>>,
            <<"one", {"gost<s>2590"}, {}>>,
            <<"then", {"<d><s>mm"}, {"stal"}>>,
            <<"then", {"stal"}, {"<d>"}>>}
      [] category = "HAMMER" ->
           {<<"one", {"molot"}, {}>>,
            <<"one", {"hammer"}, {}>>,
            <<"then", {"slesarn"}, {"molot"}>>,
            <<"then", {"elektromontazh"}, {"molot"}>>,
            <<"then", {"<d><s>kg", "<d><s>kg(en)"}, {"molot"}>>,
            <<"then", {"rukoyat"}, {"molot"}>>,
            <<"one", {"stanley", "gross", "matrix", "sparta"}, {}>>}
      [] category = "TIRE" ->
           {<<"one", {"shin[ay]"}, {}>>,
            <<"one", {"tire"}, {}>>,
            <<"then", {"rezin"}, {"koles"}>>,
            <<"one", {"pokrysh"}, {}>>,
            <<"one", {"<ddd>/<dd><s>r<dd>"}, {}>>,
            <<"one", {"zimn", "letn", "vsesezon"}, {}>>,
            <<"one", {"nokian", "michelin", "bridgestone", "continental", "kama",
                      "bfgoodrich"}, {}>>,
            <<"one", {"hakkapeliitta", "pilot", "turanza"}, {}>>}
      [] OTHER -> {}

\* pattern.search(text): a.*b needs an occurrence of a that ends in a word before the
\* one in which an occurrence of b starts
PatternSearch(pat, text) ==
    IF pat[1] = "one" THEN \E a \in pat[2] : EndsAt(text, a) # {}
    ELSE \E a \in pat[2], b \in pat[3] :
             \E i \in EndsAt(text, a), j \in StartsAt(text, b) : i < j

pattern_matches(text, category) ==
    Cardinality({pat \in patterns(category) : PatternSearch(pat, text)})

keyword_matches(text, category) ==
    Cardinality({i \in 1..Len(keywords(category)) :
                    Contains(Lower(text), keywords(category)[i][1])})

\* The double that 0.0 + p * 0.3 + k * 0.2 evaluates to, capped by min(score, 1.0), in
\* hundredths.  Three sums below 1.0 are not the double nearest the decimal value:
\* 0.6000000000000001 (p = 0, k = 3) and 0.9000000000000001 (p = 1, k = 3) lie above
\* it and are written 61 and 91, 0.8999999999999999 (p = 3, k = 0) lies below it and is
\* written 89; the order of the numbers is the order of the doubles.
FloatScore(p, k) ==
    LET score == 30 * p + 20 * k
    IN IF score >= 100 THEN 100
       ELSE IF k = 3 /\ p \in {0, 1} THEN score + 1
       ELSE IF k = 0 /\ p = 3 THEN score - 1
       ELSE score

\* the same score counting the patterns only
calculate_category_score_PatternsOnly(text, category) ==
    FloatScore(pattern_matches(text, category), 0)

\* _calculate_category_score (no learned patterns: learn_from_correction is never called)
calculate_category_score(text, category) ==
    FloatScore(pattern_matches(text, category), keyword_matches(text, category))

\* max(scores, key=scores.get): the first category, in declaration order, with the top score
RECURSIVE BestOf(_, _, _)
BestOf(cats, text, best) ==
    IF cats = <<>> THEN best
    ELSE IF calculate_category_score(text, Head(cats)) > calculate_category_score(text, best)
         THEN BestOf(Tail(cats), text, Head(cats))
    ELSE BestOf(Tail(cats), text, best)

\* the detection without its threshold check
detect_category_NoThreshold(product_name) ==
    IF product_name = <<>> THEN <<UNKNOWN, 0>>
    ELSE LET normalized == normalize_text(product_name)
             best_category == BestOf(SubSeq(ProductCategory, 2, 4), normalized,
                                     ProductCategory[1])
         IN <<best_category, calculate_category_score(normalized, best_category)>>

\* detect_category: <<category, confidence>>
detect_category(product_name) ==
    IF product_name = <<>> THEN <<UNKNOWN, 0>>
    ELSE LET normalized == normalize_text(product_name)
             best_category == BestOf(SubSeq(ProductCategory, 2, 4), normalized,
                                     ProductCategory[1])
             confidence == calculate_category_score(normalized, best_category)
         IN IF confidence < 30 THEN <<UNKNOWN, confidence>>
            ELSE <<best_category, confidence>>

-----------------------------------------------------------------------------
(* MTRProcessor *)

\* bounds of the model
NumProducts == 3
\* PROCESSING_CONFIG, scaled down
batch_size == 3
parallel_workers == 2
\* stop_after_attempt(3)
MaxAttempts == 3
\* the oracle calls of a run that never return
MaxStuck == 1

Idx == 1..NumProducts

\* rows as ExcelParser._extract_product builds them
Row(name, unit) ==
    [original_name |-> name, original_unit |-> unit,
     category |-> detect_category(name)[1],
     confidence_score |-> detect_category(name)[2],
     normalized_unit |-> None, okpd2_code |-> None, comment |-> None,
     specifications |-> <<>>, status |-> "PENDING", error_message |-> None]

ROW_SENSOR == Row(<<"Datchik", "davleniya", "OVEN", "PD100I-DG0.25">>, <<"SHT">>)
ROW_STEEL == Row(<<"Krug", "stalnoj", "2590", "goryachekatanyj">>, <<"kg">>)
ROW_BEARING == Row(<<"Podshipnik", "sharikovyj", "SKF", "6205-2RS">>, <<"sht">>)

SampleRows == {ROW_SENSOR, ROW_STEEL, ROW_BEARING}

\* the parsed input files the runs start from
SampleFiles ==
    {file \in [Idx -> SampleRows] :
        \/ \A i \in Idx : file[i] = ROW_SENSOR
        \/ /\ file[2] = ROW_BEARING
           /\ \A i \in Idx \ {2} : file[i] = ROW_SENSOR}

\* categories in order of first appearance (the keys of the dict `categorized`)
RECURSIVE CategoryOrder(_, _, _)
CategoryOrder(prods, i, seen) ==
    IF i > Len(prods) THEN <<>>
    ELSE IF prods[i].category \in seen THEN CategoryOrder(prods, i + 1, seen)
    ELSE <<prods[i].category>> \o CategoryOrder(prods, i + 1, seen \cup {prods[i].category})

RECURSIVE IndicesOf(_, _, _)
IndicesOf(prods, i, category) ==
    IF i > Len(prods) THEN <<>>
    ELSE (IF prods[i].category = category THEN <<i>> ELSE <<>>)
         \o IndicesOf(prods, i + 1, category)

\* lines 130-135 of _categorize_products: detect the category of a product that has none
Detected(prod) ==
    IF prod.category = UNKNOWN
    THEN [prod EXCEPT !.category = detect_category(prod.original_name)[1],
                      !.confidence_score = detect_category(prod.original_name)[2]]
    ELSE prod

\* _categorize_products: the dict as a list of <<category, indices>>
categorize_products(prods) ==
    LET order == CategoryOrder(prods, 1, {})
    IN [k \in 1..Len(order) |-> <<order[k], IndicesOf(prods, 1, order[k])>>]

\* one batch of the whole group, whatever its size
create_batches_Whole(indices, category) ==
    IF indices = <<>> THEN <<>>
    ELSE << [products |-> indices, category |-> category, total_count |-> Len(indices),
             processed_count |-> 0, failed_count |-> 0] >>

\* _create_batches
RECURSIVE create_batches(_, _)
create_batches(indices, category) ==
    IF indices = <<>> THEN <<>>
    ELSE IF Len(indices) <= batch_size
         THEN << [products |-> indices, category |-> category, total_count |-> Len(indices),
                  processed_count |-> 0, failed_count |-> 0] >>
    ELSE << [products |-> SubSeq(indices, 1, batch_size), category |-> category,
             total_count |-> batch_size, processed_count |-> 0, failed_count |-> 0] >>
         \o create_batches(SubSeq(indices, batch_size + 1, Len(indices)), category)

RECURSIVE AllBatches(_)
AllBatches(categorized) ==
    IF categorized = <<>> THEN <<>>
    ELSE create_batches(Head(categorized)[2], Head(categorized)[1])
         \o AllBatches(Tail(categorized))

\* unit_keys of _get_normalized_unit: keyed by ProductCategory member
unit_keys(category) ==
    CASE category = "PRESSURE_SENSOR" -> "datchik"
      [] category = "STEEL_CIRCLE" -> "krug"
      [] category = "HAMMER" -> "molotok"
      [] category = "TIRE" -> "shina"
      [] OTHER -> "<None>"

\* _get_normalized_unit
get_normalized_unit(product, category) ==
    IF unit_keys(category) # "<None>"
       /\ Lower(product.original_unit)
            \in {Lower(u) : u \in SeqToSet(unit_validation(unit_keys(category)))}
    THEN unit_validation(unit_keys(category))[1]
    ELSE product.original_unit

\* d[k] = v
DictSet(d, k, v) ==
    IF k \in Keys(d) THEN [i \in 1..Len(d) |-> IF d[i][1] = k THEN <<k, v>> ELSE d[i]]
    ELSE Append(d, <<k, v>>)

\* lines 226-231: the specifications written to the product
UpdatedSpecifications(research_result) ==
    LET s0 == research_result.specifications
        s1 == IF Truthy(research_result.manufacturer)
              THEN DictSet(s0, "manufacturer", research_result.manufacturer) ELSE s0
    IN IF Truthy(research_result.model) THEN DictSet(s1, "model", research_result.model)
       ELSE s1

COMMENT_OK == <<"Uspeshno normalizovano">>

\* "; ".join(issues)
RECURSIVE JoinSemi(_)
JoinSemi(list) ==
    IF list = <<>> THEN <<>>
    ELSE IF Len(list) = 1 THEN Head(list)
    ELSE Head(list) \o <<";">> \o JoinSemi(Tail(list))

Finalized_OkComment(product, category, research_result, okpd2_result, validation_result) ==
    [product EXCEPT !.specifications = UpdatedSpecifications(research_result),
                    !.okpd2_code = okpd2_result.code,
                    !.normalized_unit = get_normalized_unit(product, category),
                    !.status = IF validation_result.is_valid THEN "COMPLETED"
                               ELSE "REJECTED",
                    !.comment = COMMENT_OK]

\* lines 225-248 of _process_single_product: the product after the three stages
Finalized(product, category, research_result, okpd2_result, validation_result) ==
    LET p1 == [product EXCEPT !.specifications = UpdatedSpecifications(research_result),
                              !.okpd2_code = okpd2_result.code]
        p2 == [p1 EXCEPT !.normalized_unit = get_normalized_unit(p1, category)]
    IN IF validation_result.is_valid
       THEN [p2 EXCEPT !.status = "COMPLETED", !.comment = COMMENT_OK]
       ELSE [p2 EXCEPT !.status = "REJECTED",
                       !.comment = validation_result.rejection_reason,
                       !.error_message = JoinSemi(validation_result.issues)]

\* the except branch after the classification code was stored
Failed_CodeWritten(product, e) ==
    [product EXCEPT !.status = "FAILED", !.error_message = e,
                    !.okpd2_code = <<"00", "00", "00">>]

FailedGeneric(product, e) ==
    [product EXCEPT !.status = "FAILED", !.error_message = <<"processing failed">>]

\* lines 250-254: the except branch
Failed(product, e) ==
    [product EXCEPT !.status = "FAILED", !.error_message = e]


-----------------------------------------------------------------------------
(* What the external oracles may answer (samples) *)

EX_INFO == JsonDict(<< <<"manufacturer", <<"OVEN">> >>, <<"model", <<"PD100I">> >> >>)

\* base_agent.py lines 35-49: _call_llm under @retry(stop=stop_after_attempt(3)); the
\* outcomes of the attempts in order.  The first answer is returned; when MaxAttempts
\* attempts have raised, the call raises, which every caller catches.
RECURSIVE call_llm_from(_, _)
call_llm_from(outcomes, n) ==
    IF n > MaxAttempts \/ n > Len(outcomes) THEN LLM_FAILED
    ELSE IF ~outcomes[n].failed THEN outcomes[n]
    ELSE call_llm_from(outcomes, n + 1)

call_llm(outcomes) == call_llm_from(outcomes, 1)

\* an oracle that answers v at once, after two errors, or only after MaxAttempts errors
Attempts(v) ==
    {<<Answer(v)>>, <<LLM_FAILED, LLM_FAILED, Answer(v)>>,
     [i \in 1..(MaxAttempts + 1) |-> IF i <= MaxAttempts THEN LLM_FAILED ELSE Answer(v)]}

Responses(values) == {call_llm(a) : a \in UNION {Attempts(v) : v \in values}}

ExtractResponses == Responses({EX_INFO, JsonList})

\* a specification dict that meets the criteria of the category
CompleteSpecs(category) ==
    LET req == IF MemberKey(category) \in validation_criteria_keys
               THEN validation_criteria(category).required_specs
               ELSE validation_criteria("PRESSURE_SENSOR").required_specs
    IN [i \in 1..Len(req) |-> <<req[i], <<"val">> >>]
       \o << <<"material", <<"val">> >>, <<"weight", <<"val">> >> >>

SpecData(manufacturer, model, specs) ==
    JsonDict(<< <<"manufacturer", manufacturer>>, <<"model", model>>,
                <<"specifications", specs>> >>)

AnalyzeResponses(category) ==
    Responses({SpecData(<<"OVEN">>, <<"PD100I">>, CompleteSpecs(category)),
               SpecData(IntObj, <<"PD100I">>, CompleteSpecs(category)),
               SpecData(<<"OVEN">>, IntObj, CompleteSpecs(category))})

SUG_BEARING == Cand(<<"28", "15", "10", "110">>, <<"Podshipniki", "sharikovye">>, 4)
SUG_NO_CODE == [code |-> None, name |-> <<"Podshipniki">>, has_level |-> TRUE, level |-> 4]

\* a suggestion whose code string ends in a newline
SUG_NEWLINE == Cand(<<"26", "51", "52", "110\n">>, <<"Datchiki", "davleniya", "OVEN">>, 4)

SuggestResponses == Responses({<<SUG_BEARING, SUG_NEWLINE>>, <<SUG_NO_CODE>>})

SuggestionsResponses == Responses({<< <<"Zaprosit pasport izdeliya">> >>})

-----------------------------------------------------------------------------
(* State machine of process_file *)

NoBatch == [products |-> <<>>, category |-> UNKNOWN, total_count |-> 0,
            processed_count |-> 0, failed_count |-> 0]

ZeroStats == [total_processed |-> 0, successful |-> 0, rejected |-> 0, failed |-> 0]

CallStates == {"extract", "analyze", "suggest", "suggestions"}

\* the item pipelines between acquiring and releasing the semaphore
InFlight == {p \in Idx : pc[p] \in CallStates}

PipeInit ==
    /\ products \in SampleFiles
    /\ mainPc = "start"
    /\ batches = <<>>
    /\ batchIdx = 0
    /\ batch = NoBatch
    /\ semaphore = parallel_workers
    /\ all_results = <<>>
    /\ result = [status |-> "running", statistics |-> ZeroStats, products |-> <<>>]
    /\ pc = [p \in Idx |-> "idle"]
    /\ hung = [p \in Idx |-> FALSE]
    /\ extracted = [p \in Idx |-> JsonDict(<<>>)]
    /\ research = [p \in Idx |-> NoneDict]
    /\ all_candidates = [p \in Idx |-> <<>>]
    /\ okpd2 = [p \in Idx |-> NoneDict]
    /\ returned_reason = [p \in Idx |-> None]
    /\ returned_okpd2 = [p \in Idx |-> NoneDict]
    /\ okpd2_cache = <<>>
    /\ oracleFailed = [p \in Idx |-> FALSE]
    /\ raised = [p \in Idx |-> None]
    /\ trail = [p \in Idx |-> <<"PENDING">>]
    /\ cache_writes = <<>>

RuleIdle ==
    /\ vIn = NoneDict
    /\ vOut = NoneDict
    /\ dIssues = <<>>
    /\ dReason = None

SelectIdle == sIn = NoneDict /\ sOut = NoneDict

DetectIdle == nIn = None /\ nOut = None

BatchIdle == bIn = NoneDict /\ bOut = NoneDict

LevelIdle == lIn = None /\ lOut = 0

FnIdle == SelectIdle /\ DetectIdle /\ BatchIdle /\ LevelIdle

\* no process_multiple_files under way
MultiIdle ==
    /\ mode = "single"
    /\ fProducts = <<>>
    /\ fPc = <<>>
    /\ fBatches = <<>>
    /\ fBatchIdx = <<>>
    /\ fSemaphore = <<>>
    /\ fItem = <<>>
    /\ fResults = <<>>
    /\ stats = ZeroStats
    /\ fResult = <<>>

Init == PipeInit /\ RuleIdle /\ FnIdle /\ MultiIdle

\* lines 72-76: parse (the rows are given) and group by category
CanCategorize == mainPc = "start"

Categorize ==
    /\ CanCategorize
    /\ products' = [p \in Idx |-> Detected(products[p])]
    /\ batches' = AllBatches(categorize_products(products'))
    /\ mainPc' = "loop"
    /\ UNCHANGED <<batchIdx, batch, semaphore, all_results, result, pc, hung,
                   extracted, research, all_candidates, okpd2, returned_reason, returned_okpd2, okpd2_cache,
                   oracleFailed, raised, trail, cache_writes, ruleVars, fnVars, multiVars>>

\* lines 87-88 and 164-176: the next batch enters _process_batch; gather starts one task
\* per product, each waiting at `async with semaphore`
CanStartBatch == mainPc = "loop" /\ batchIdx < Len(batches)

StartBatch ==
    /\ CanStartBatch
    /\ batchIdx' = batchIdx + 1
    /\ batch' = batches[batchIdx + 1]
    /\ semaphore' = parallel_workers
    /\ pc' = [p \in Idx |-> IF p \in SeqToSet(batch'.products) THEN "waiting" ELSE pc[p]]
    /\ mainPc' = "gather"
    /\ UNCHANGED <<products, batches, all_results, result, hung, extracted,
                   research, all_candidates, okpd2, returned_reason, returned_okpd2, okpd2_cache, oracleFailed,
                   raised, trail, cache_writes, ruleVars, fnVars, multiVars>>

SemaphoreLocked_Never == FALSE

\* asyncio.Semaphore.locked()
SemaphoreLocked == semaphore = 0

\* the waiters are woken first come, first served
FirstWaiter(p) ==
    \A i, j \in 1..Len(batch.products) :
        (batch.products[j] = p /\ i < j) => pc[batch.products[i]] # "waiting"

SetStatus_Keep(prod, st) == prod

\* product.status = ...
SetStatus(prod, st) == [prod EXCEPT !.status = st]

\* lines 171-172, 198-206: acquire the semaphore, mark PROCESSING, call the research agent,
\* which awaits its first _call_llm
CanAcquire(p) ==
    mainPc = "gather" /\ pc[p] = "waiting" /\ ~SemaphoreLocked /\ FirstWaiter(p)

Acquire(p) ==
    /\ CanAcquire(p)
    /\ semaphore' = semaphore - 1
    /\ products' = [products EXCEPT ![p] = SetStatus(@, "PROCESSING")]
    /\ trail' = [trail EXCEPT ![p] = Append(@, products'[p].status)]
    /\ pc' = [pc EXCEPT ![p] = "extract"]
    /\ UNCHANGED <<mainPc, batches, batchIdx, batch, all_results, result, hung, extracted,
                   research, all_candidates, okpd2, returned_reason, returned_okpd2, okpd2_cache, oracleFailed,
                   raised, cache_writes, ruleVars, fnVars, multiVars>>

\* the _call_llm that the pipeline awaits at the stage can return
Awaited(p, stage) == pc[p] = stage /\ ~hung[p]

\* base_agent.py lines 40-45: acreate is awaited without a timeout; the call may never return
LLMHang(p) ==
    /\ \E stage \in CallStates : Awaited(p, stage)
    /\ Cardinality({q \in Idx : hung[q]}) < MaxStuck
    /\ hung' = [hung EXCEPT ![p] = TRUE]
    /\ UNCHANGED <<products, mainPc, batches, batchIdx, batch, semaphore, all_results, result,
                   pc, extracted, research, all_candidates, okpd2, returned_reason, returned_okpd2,
                   okpd2_cache, oracleFailed, raised, trail, cache_writes, ruleVars, fnVars, multiVars>>

\* history: an oracle call of the product has failed on all its retries
NoteFailure(p, response) == [oracleFailed EXCEPT ![p] = @ \/ response.failed]


\* a task that ends without giving the semaphore back
EndPipeline_NoRelease(p, prod) ==
    /\ products' = [products EXCEPT ![p] = prod]
    /\ trail' = [trail EXCEPT ![p] = Append(@, prod.status)]
    /\ semaphore' = semaphore
    /\ pc' = [pc EXCEPT ![p] = "done"]
    /\ extracted' = [extracted EXCEPT ![p] = JsonDict(<<>>)]
    /\ research' = [research EXCEPT ![p] = NoneDict]
    /\ all_candidates' = [all_candidates EXCEPT ![p] = <<>>]
    /\ okpd2' = [okpd2 EXCEPT ![p] = NoneDict]

\* the end of `async with semaphore`: the task is done with the product it returns
EndPipeline(p, prod) ==
    /\ products' = [products EXCEPT ![p] = prod]
    /\ trail' = [trail EXCEPT ![p] = Append(@, prod.status)]
    /\ semaphore' = semaphore + 1
    /\ pc' = [pc EXCEPT ![p] = "done"]
    /\ extracted' = [extracted EXCEPT ![p] = JsonDict(<<>>)]
    /\ research' = [research EXCEPT ![p] = NoneDict]
    /\ all_candidates' = [all_candidates EXCEPT ![p] = <<>>]
    /\ okpd2' = [okpd2 EXCEPT ![p] = NoneDict]

\* lines 250-254: an exception of any stage is caught
Raise(p, e) ==
    /\ EndPipeline(p, Failed(products[p], e))
    /\ raised' = [raised EXCEPT ![p] = e]
    /\ UNCHANGED <<returned_reason, returned_okpd2>>

\* research_agent.py lines 120, 133-158: _extract_from_name returns; the web search does
\* not suspend; _analyze_and_structure awaits its _call_llm
ExtractReturn(p) ==
    /\ Awaited(p, "extract")
    /\ \E response \in ExtractResponses :
         /\ extracted' = [extracted EXCEPT ![p] = extract_from_name(response)]
         /\ oracleFailed' = NoteFailure(p, response)
    /\ pc' = [pc EXCEPT ![p] = "analyze"]
    /\ UNCHANGED <<products, mainPc, batches, batchIdx, batch, semaphore, all_results, result,
                   hung, research, all_candidates, okpd2, returned_reason, returned_okpd2, okpd2_cache, raised,
                   trail, cache_writes, ruleVars, fnVars, multiVars>>

\* research_agent.py lines 126-131 and okpd2_agent.py lines 40-47, 100-116: the research
\* result is built, the search terms are made and looked up; _get_llm_suggestions awaits
AnalyzeReturn(p) ==
    /\ Awaited(p, "analyze")
    /\ \E response \in AnalyzeResponses(batch.category) :
         LET exc == research_raises(extracted[p], response)
             research_result == analyze_and_structure(extracted[p], response)
             search_terms == generate_search_terms(products[p], research_result,
                                                   batch.category)
             found == SearchLoop(search_terms, okpd2_cache, <<>>)
         IN /\ oracleFailed' = NoteFailure(p, response)
            /\ IF exc # None
               THEN Raise(p, exc) /\ UNCHANGED <<okpd2_cache, cache_writes>>
               ELSE /\ okpd2_cache' = found.cache
                    /\ cache_writes' = cache_writes \o found.writes
                    /\ IF found.exc # None
                       THEN Raise(p, found.exc)
                       ELSE /\ research' = [research EXCEPT ![p] = research_result]
                            /\ all_candidates' =
                                   [all_candidates EXCEPT ![p] = found.all_candidates]
                            /\ pc' = [pc EXCEPT ![p] = "suggest"]
                            /\ UNCHANGED <<products, semaphore, extracted, okpd2, returned_reason, returned_okpd2,
                                           raised, trail>>
    /\ UNCHANGED <<mainPc, batches, batchIdx, batch, all_results, result, hung, ruleVars, fnVars, multiVars>>

\* okpd2_agent.py lines 118-129, 43-51 and validation_agent.py lines 84-125: the candidates
\* are merged and the best is chosen; validation collects its issues; a valid product is
\* finished at once (lines 225-248), an invalid one awaits the suggestions
SuggestReturn(p) ==
    /\ Awaited(p, "suggest")
    /\ \E response \in SuggestResponses :
         LET cands == all_candidates[p] \o get_llm_suggestions(response)
             exc == dedup_raises(cands)
             okpd2_result == select_best_code(Dedup(cands, {}), products[p],
                                              batch.category, research[p])
             exc2 == apply_business_rules_raises(research[p])
             issues == collect_issues(products[p], batch.category, research[p],
                                      okpd2_result)
             validation_result ==
                 process_validation(products[p], batch.category, research[p],
                                    okpd2_result, LLM_FAILED)
         IN /\ oracleFailed' = NoteFailure(p, response)
            /\ IF exc # None THEN Raise(p, exc)
               ELSE IF exc2 # None THEN Raise(p, exc2)
               ELSE IF issues = <<>>
               THEN /\ EndPipeline(p, Finalized(products[p], batch.category, research[p],
                                                okpd2_result, validation_result))
                    /\ returned_reason' = [returned_reason EXCEPT ![p] = validation_result.rejection_reason]
                    /\ returned_okpd2' = [returned_okpd2 EXCEPT ![p] = okpd2_result]
                    /\ UNCHANGED raised
               ELSE /\ okpd2' = [okpd2 EXCEPT ![p] = okpd2_result]
                    /\ pc' = [pc EXCEPT ![p] = "suggestions"]
                    /\ UNCHANGED <<products, semaphore, extracted, research, all_candidates,
                                   returned_reason, returned_okpd2, raised, trail>>
    /\ UNCHANGED <<mainPc, batches, batchIdx, batch, all_results, result, hung, okpd2_cache,
                   cache_writes, ruleVars, fnVars, multiVars>>

\* validation_agent.py lines 127-138 and mtr_processor.py lines 225-248: the suggestions
\* arrive (or their fallback) and the product is finished
SuggestionsReturn(p) ==
    /\ Awaited(p, "suggestions")
    /\ \E response \in SuggestionsResponses :
         LET validation_result ==
                 process_validation(products[p], batch.category, research[p], okpd2[p],
                                    response)
         IN /\ oracleFailed' = NoteFailure(p, response)
            /\ EndPipeline(p, Finalized(products[p], batch.category, research[p], okpd2[p],
                                        validation_result))
            /\ returned_reason' = [returned_reason EXCEPT ![p] = validation_result.rejection_reason]
            /\ returned_okpd2' = [returned_okpd2 EXCEPT ![p] = okpd2[p]]
    /\ UNCHANGED <<mainPc, batches, batchIdx, batch, all_results, result, hung, okpd2_cache,
                   raised, cache_writes, ruleVars, fnVars, multiVars>>

gather_done_Any == \E p \in SeqToSet(batch.products) : pc[p] = "done"

\* line 176: `await asyncio.gather(*tasks, return_exceptions=True)` resumes when every
\* task is done
gather_done == \A p \in SeqToSet(batch.products) : pc[p] = "done"

\* what gather returns: per task, in task order, the product it returned;
\* _process_single_product catches every Exception, so no task ends with one
gather_results == [i \in 1..Len(batch.products) |->
                      [is_exception |-> FALSE, product |-> batch.products[i], text |-> None]]

\* lines 179-189: the loop over zip(batch.products, results), from position i on.
\* Gives the batch counters, the processed_products list and the products after it.
RECURSIVE HandleResults(_, _, _)
HandleResults(results, i, acc) ==
    IF i > Len(batch.products) \/ i > Len(results) THEN acc
    ELSE IF results[i].is_exception
    THEN HandleResults(results, i + 1,
             [acc EXCEPT !.products[batch.products[i]] =
                             Failed(acc.products[batch.products[i]], results[i].text),
                         !.failed_count = @ + 1,
                         !.processed_products = Append(@, batch.products[i])])
    ELSE HandleResults(results, i + 1,
             [acc EXCEPT !.processed_count = @ + 1,
                         !.processed_products = Append(@, results[i].product)])

\* lines 176-192 and 88-89: gather returns, the results are handled and join all_results
CanFinishBatch == mainPc = "gather" /\ gather_done

FinishBatch ==
    /\ CanFinishBatch
    /\ LET out == HandleResults(gather_results, 1,
                     [products |-> products, processed_count |-> batch.processed_count,
                      failed_count |-> batch.failed_count, processed_products |-> <<>>])
       IN /\ batch' = [batch EXCEPT !.processed_count = out.processed_count,
                                    !.failed_count = out.failed_count]
          /\ products' = out.products
          /\ all_results' = all_results \o out.processed_products
    /\ mainPc' = "loop"
    /\ UNCHANGED <<batches, batchIdx, semaphore, result, pc, hung,
                   extracted, research, all_candidates, okpd2, returned_reason, returned_okpd2, okpd2_cache,
                   oracleFailed, raised, trail, cache_writes, ruleVars, fnVars, multiVars>>

CountStatus_Total(list, st) == Len(list)

\* lines 100-105: sum(1 for p in all_results if p.status == st)
CountStatus(list, st) == Cardinality({i \in 1..Len(list) : products[list[i]].status = st})

\* lines 91-122: the output is written (or fails to be) and the statistics are computed
CanFinish == mainPc = "loop" /\ batchIdx = Len(batches)

Finish ==
    /\ CanFinish
    /\ \E output_ok \in BOOLEAN :
         result' = IF output_ok
                   THEN [status |-> "success",
                         statistics |-> [total_processed |-> Len(all_results),
                                         successful |-> CountStatus(all_results, "COMPLETED"),
                                         rejected |-> CountStatus(all_results, "REJECTED"),
                                         failed |-> CountStatus(all_results, "FAILED")],
                         products |-> all_results]
                   ELSE [status |-> "error", statistics |-> ZeroStats, products |-> <<>>]
    /\ mainPc' = "done"
    /\ UNCHANGED <<products, batches, batchIdx, batch, semaphore, all_results, pc,
                   hung, extracted, research, all_candidates, okpd2, returned_reason, returned_okpd2, okpd2_cache,
                   oracleFailed, raised, trail, cache_writes, ruleVars, fnVars, multiVars>>

PipeNext ==
    \/ Categorize
    \/ StartBatch
    \/ \E p \in Idx : Acquire(p)
    \/ \E p \in Idx : LLMHang(p)
    \/ \E p \in Idx : ExtractReturn(p)
    \/ \E p \in Idx : AnalyzeReturn(p)
    \/ \E p \in Idx : SuggestReturn(p)
    \/ \E p \in Idx : SuggestionsReturn(p)
    \/ FinishBatch
    \/ Finish

Next == PipeNext

Spec == Init /\ [][Next]_vars


-----------------------------------------------------------------------------
(* The rule engine applied to drawn inputs *)

MaxIssues == 3

ROW_UNIT == Row(<<"Datchik", "davleniya", "OVEN", "PD100I-DG0.25">>, <<"kg">>)
ROW_COLOR == Row(<<"Datchik", "artikul", "cveta">>, <<"sht">>)
ROW_GENERIC == Row(<<"Prochie", "datchiki">>, <<"sht">>)

Research(manufacturer, model, specs) ==
    [manufacturer |-> manufacturer, model |-> model, specifications |-> specs,
     confidence |-> 70]

SampleResearch(category) ==
    {NoneDict,
     Research(<<"OVEN">>, <<"PD100I">>, CompleteSpecs(category)),
     Research(None, <<"PD100I">>, CompleteSpecs(category)),
     Research(<<"Unknown">>, <<"PD100I">>, CompleteSpecs(category)),
     Research(<<"OVEN">>, <<"A1">>, CompleteSpecs(category)),
     Research(<<"OVEN">>, <<"PD100I">>,
              DictSet(CompleteSpecs(category), "weight", <<"N/A">>)),
     Research(<<"OVEN">>, <<"PD100I">>,
              DictSet(CompleteSpecs(category), "diameter", <<"10-20">>)),
     Research(<<"OVEN">>, <<"PD100I">>, <<>>)}

Okpd2(code, level, confidence) ==
    [code |-> code, name |-> <<"Datchiki", "davleniya">>, level |-> level,
     parent_code |-> None, confidence |-> confidence, alternative_codes |-> <<>>]

SampleOkpd2 ==
    {NoneDict,
     Okpd2(<<"26", "51", "52", "110">>, 4, 70),
     Okpd2(<<"26", "51", "52", "110">>, 4, HALF),
     Okpd2(<<"26", "51", "52", "110">>, 4, HALF - 1),
     Okpd2(<<"26", "51">>, 2, 70),
     Okpd2(<<"28", "15", "10", "110">>, 4, 70),
     Okpd2(<<"00", "00", "00">>, 1, 10)}

ValidationInputs ==
    [product : {ROW_SENSOR, ROW_UNIT, ROW_COLOR, ROW_GENERIC},
     category : {"PRESSURE_SENSOR", UNKNOWN},
     research_result : SampleResearch("PRESSURE_SENSOR"),
     okpd2_result : SampleOkpd2,
     response : SuggestionsResponses]

\* issue texts: those the validators make, and some that only mention a token
IssuePool ==
    {<<"Otsutstvuet kod OKPD2">>,
     <<"Nevozmozhno opredelit proizvoditelya">>,
     <<"Proizvoditel", "ne ukazan">>,
     <<"Obnaruzhena variativnost po cvetu">>,
     <<"Obnaruzhena variativnost po parametru:", "diameter">>,
     <<"Obnaruzhena variativnost po parametru:", "razmer">>,
     <<"Otsutstvuyut tehnicheskie harakteristiki">>,
     <<"Model/artikul slishkom korotkij">>}

IssueLists == UNION {[1..n -> IssuePool] : n \in 1..MaxIssues}

RuleInit ==
    /\ PipeInit
    /\ FnIdle
    /\ MultiIdle
    /\ products = [p \in Idx |-> ROW_SENSOR]
    /\ vOut = NoneDict
    /\ dReason = None
    /\ \/ vIn \in ValidationInputs /\ dIssues = <<>>
       \/ vIn = NoneDict /\ dIssues \in IssueLists

\* QualityValidationAgent.process on the drawn input
Validate ==
    /\ vIn # NoneDict
    /\ vOut = NoneDict
    /\ vOut' = process_validation(vIn.product, vIn.category, vIn.research_result,
                                  vIn.okpd2_result, vIn.response)
    /\ UNCHANGED <<pipeVars, vIn, dIssues, dReason, fnVars, multiVars>>

\* _determine_rejection_reason on the drawn issue list
Determine ==
    /\ dIssues # <<>>
    /\ dReason = None
    /\ dReason' = determine_rejection_reason(dIssues)
    /\ UNCHANGED <<pipeVars, vIn, vOut, dIssues, fnVars, multiVars>>

RuleNext == Validate \/ Determine

RuleSpec == RuleInit /\ [][RuleNext]_vars

-----------------------------------------------------------------------------
(* The selector applied to drawn inputs *)

\* a candidate without the key "level", as the LLM may give it
CAND_NO_LEVEL ==
    [code |-> <<"26", "51">>, name |-> <<"Pribory">>, has_level |-> FALSE, level |-> 0]

\* a candidate to which the LLM gives a level above the four of the classifier
CAND_LEVEL5 ==
    [code |-> <<"26", "51", "52", "110">>, name |-> <<"Datchiki", "davleniya">>,
     has_level |-> TRUE, level |-> 5]

CandidatePool ==
    {mock_codes("datchik")[1], mock_codes("datchik")[2], mock_codes("krug")[1],
     SUG_BEARING, CAND_NO_LEVEL, CAND_LEVEL5}

\* the candidates of the longer lists
RankedPool == {mock_codes("datchik")[1], mock_codes("krug")[1], SUG_BEARING}

\* the longest candidate list
MaxCandidates == 5

\* the candidate lists: all of at most two candidates, and longer ones of RankedPool
CandidateLists == {<<>>} \cup {<<c>> : c \in CandidatePool}
                  \cup {<<c, d>> : c \in CandidatePool, d \in CandidatePool}
                  \cup UNION {[1..n -> RankedPool] : n \in 3..MaxCandidates}

SelectInputs ==
    [candidates : CandidateLists,
     product : {ROW_SENSOR, ROW_STEEL, ROW_BEARING},
     category : SeqToSet(ProductCategory),
     research_result : {NoneDict, Research(<<"OVEN">>, <<"PD100I">>, <<>>)}]

ClassifyInit ==
    /\ PipeInit
    /\ products = [p \in Idx |-> ROW_SENSOR]
    /\ RuleIdle
    /\ sIn \in SelectInputs
    /\ sOut = NoneDict
    /\ DetectIdle
    /\ BatchIdle
    /\ LevelIdle
    /\ MultiIdle

\* _select_best_code on the drawn input
SelectBest ==
    /\ sIn # NoneDict
    /\ sOut = NoneDict
    /\ sOut' = select_best_code(sIn.candidates, sIn.product, sIn.category,
                                sIn.research_result)
    /\ UNCHANGED <<pipeVars, ruleVars, sIn, nIn, nOut, bIn, bOut, lIn, lOut, multiVars>>

ClassifyNext == SelectBest

ClassifySpec == ClassifyInit /\ [][ClassifyNext]_vars

-----------------------------------------------------------------------------
(* The detector applied to drawn names *)

\* test_products of test_category_detection
test_products ==
    << <<"Datchik", "davleniya", "OVEN", "PD100I-DG0.25-111-0.5">>,
       <<"Krug", "stalnoj", "goryachekatanyj", "V1-II", "10MM", "GOST", "2590-2006">>,
       <<"Molotok", "slesarnyj", "0.5KG", "320MM", "stal", "uglerodistaya">>,
       <<"Shina", "zimnyaya", "Nokian", "Tyres", "Hakkapeliitta", "R5", "SUV", "265/65",
         "R17">>,
       <<"Podshipnik", "sharikovyj", "SKF", "6205-2RS">> >>

\* the pieces other names are put together from
Phrases ==
    {<<>>, <<" ">>, <<"   ">>, <<"PD100", "PMP">>, <<"krug", "steel", "prokat">>,
     <<"krug", "prokat">>, <<"sensor", "pressure">>, <<"pressure!sensor">>,
     <<"zimnyaya", "Nokian">>, <<"Molotok", "hammer">>, <<"stanley">>, <<"Datchiki">>,
     <<"Shiny">>, <<"Shina", "tire">>}

\* the names given to the detector: str values, the empty one among them
ProductNames ==
    SeqToSet(test_products) \cup {a \o b \o c : a \in Phrases, b \in Phrases, c \in Phrases}

DetectInit ==
    /\ PipeInit
    /\ products = [p \in Idx |-> ROW_SENSOR]
    /\ RuleIdle
    /\ SelectIdle
    /\ BatchIdle
    /\ LevelIdle
    /\ MultiIdle
    /\ nIn \in ProductNames
    /\ nOut = None

\* detect_category on the drawn name
Detect ==
    /\ nIn # None
    /\ nOut = None
    /\ nOut' = detect_category(nIn)
    /\ UNCHANGED <<pipeVars, ruleVars, sIn, sOut, nIn, bIn, bOut, lIn, lOut, multiVars>>

DetectNext == Detect

DetectSpec == DetectInit /\ [][DetectNext]_vars


-----------------------------------------------------------------------------
(* The code level applied to drawn codes *)

\* the segments the drawn codes are made of
CodeSegments == {"00", "26", "51"}

\* code.split("."): the dotted codes of one to four segments
DottedCodes == UNION {[1..n -> CodeSegments] : n \in 1..4}

LevelInit ==
    /\ PipeInit
    /\ products = [p \in Idx |-> ROW_SENSOR]
    /\ RuleIdle
    /\ SelectIdle
    /\ DetectIdle
    /\ BatchIdle
    /\ MultiIdle
    /\ lIn \in DottedCodes
    /\ lOut = 0

\* _get_code_level on the drawn code
GetLevel ==
    /\ lIn # None
    /\ lOut = 0
    /\ lOut' = get_code_level(lIn)
    /\ UNCHANGED <<pipeVars, ruleVars, sIn, sOut, nIn, nOut, bIn, bOut, lIn, multiVars>>

LevelNext == GetLevel

LevelSpec == LevelInit /\ [][LevelNext]_vars

-----------------------------------------------------------------------------
(* Grouping and batching applied to drawn product lists *)

\* the longest parsed list drawn
MaxRows == 5

\* the parsed lists: at most MaxRows rows, of three categories
ParsedLists == [products : UNION {[1..n -> SampleRows] : n \in 0..MaxRows}]

BatchInit ==
    /\ PipeInit
    /\ products = [p \in Idx |-> ROW_SENSOR]
    /\ RuleIdle
    /\ SelectIdle
    /\ DetectIdle
    /\ LevelIdle
    /\ MultiIdle
    /\ bIn \in ParsedLists
    /\ bOut = NoneDict

\* process_file lines 75-84: _categorize_products, then _create_batches per category
MakeBatches ==
    /\ bIn # NoneDict
    /\ bOut = NoneDict
    /\ LET detected == [i \in 1..Len(bIn.products) |-> Detected(bIn.products[i])]
       IN bOut' = [products |-> detected,
                   batches |-> AllBatches(categorize_products(detected))]
    /\ UNCHANGED <<pipeVars, ruleVars, sIn, sOut, nIn, nOut, bIn, lIn, lOut, multiVars>>

BatchNext == MakeBatches

BatchSpec == BatchInit /\ [][BatchNext]_vars

-----------------------------------------------------------------------------
(* AsyncMTRProcessor.process_multiple_files: several files on one processor.  Of an item
   pipeline only its start (the semaphore is acquired) and its end (the product is
   returned with a terminal status) are kept. *)

NumFiles == 2
FileRows == 2

Files == 1..NumFiles

\* the parsed lists of the files
FileLists == [1..FileRows -> {ROW_SENSOR, ROW_BEARING}]

\* the statuses _process_single_product ends a product of the category with
ItemOutcomes(category) ==
    IF category = UNKNOWN THEN {"REJECTED", "FAILED"}
    ELSE {"COMPLETED", "REJECTED", "FAILED"}

MultiInit ==
    /\ PipeInit
    /\ products = [p \in Idx |-> ROW_SENSOR]
    /\ RuleIdle
    /\ FnIdle
    /\ mode \in {"sequential", "gathered"}
    /\ fProducts \in [Files -> FileLists]
    /\ fPc = [f \in Files |-> "idle"]
    /\ fBatches = [f \in Files |-> <<>>]
    /\ fBatchIdx = [f \in Files |-> 0]
    /\ fSemaphore = [f \in Files |-> 0]
    /\ fItem = [f \in Files |-> [i \in 1..FileRows |-> "idle"]]
    /\ fResults = [f \in Files |-> <<>>]
    /\ stats = ZeroStats
    /\ fResult = [f \in Files |-> None]

\* the batch file f has in _process_batch
FileBatch(f) == fBatches[f][fBatchIdx[f]]

\* lines 353-354 (gather starts the process_file coroutines in order) or a caller that
\* awaits one process_file after another; lines 72-76: parse and group by category
FileStart(f) ==
    /\ fPc[f] = "idle"
    /\ \A g \in 1..(f - 1) : IF mode = "sequential" THEN fPc[g] = "done" ELSE fPc[g] # "idle"
    /\ fProducts' = [fProducts EXCEPT ![f] = [i \in 1..FileRows |-> Detected(@[i])]]
    /\ fBatches' = [fBatches EXCEPT ![f] = AllBatches(categorize_products(fProducts'[f]))]
    /\ fPc' = [fPc EXCEPT ![f] = "loop"]
    /\ UNCHANGED <<pipeVars, ruleVars, fnVars, mode, fBatchIdx, fSemaphore, fItem, fResults,
                   stats, fResult>>

\* lines 87-88 and 164-176: the next batch of the file enters _process_batch, which
\* makes a Semaphore of its own and one task per product
FileStartBatch(f) ==
    /\ fPc[f] = "loop"
    /\ fBatchIdx[f] < Len(fBatches[f])
    /\ fBatchIdx' = [fBatchIdx EXCEPT ![f] = @ + 1]
    /\ fSemaphore' = [fSemaphore EXCEPT ![f] = parallel_workers]
    /\ fItem' = [fItem EXCEPT ![f] =
                    [i \in 1..FileRows |->
                        IF i \in SeqToSet(fBatches[f][fBatchIdx[f] + 1].products)
                        THEN "waiting" ELSE @[i]]]
    /\ fPc' = [fPc EXCEPT ![f] = "gather"]
    /\ UNCHANGED <<pipeVars, ruleVars, fnVars, mode, fProducts, fBatches, fResults, stats,
                   fResult>>

\* lines 170-172, 198: the task passes `async with semaphore` and marks the product
FileAcquire(f, i) ==
    /\ fPc[f] = "gather"
    /\ fItem[f][i] = "waiting"
    /\ fSemaphore[f] > 0
    /\ fSemaphore' = [fSemaphore EXCEPT ![f] = @ - 1]
    /\ fItem' = [fItem EXCEPT ![f][i] = "running"]
    /\ fProducts' = [fProducts EXCEPT ![f][i] = SetStatus(@, "PROCESSING")]
    /\ UNCHANGED <<pipeVars, ruleVars, fnVars, mode, fPc, fBatches, fBatchIdx, fResults,
                   stats, fResult>>

\* lines 236-254: the pipeline returns the product with a terminal status and leaves
\* `async with semaphore`
FileItemEnd(f, i) ==
    /\ fItem[f][i] = "running"
    /\ \E st \in ItemOutcomes(FileBatch(f).category) :
           fProducts' = [fProducts EXCEPT ![f][i] = SetStatus(@, st)]
    /\ fSemaphore' = [fSemaphore EXCEPT ![f] = @ + 1]
    /\ fItem' = [fItem EXCEPT ![f][i] = "done"]
    /\ UNCHANGED <<pipeVars, ruleVars, fnVars, mode, fPc, fBatches, fBatchIdx, fResults,
                   stats, fResult>>

\* lines 176-192 and 88-89: gather returns and the batch results join all_results
FileFinishBatch(f) ==
    /\ fPc[f] = "gather"
    /\ \A i \in SeqToSet(FileBatch(f).products) : fItem[f][i] = "done"
    /\ fResults' = [fResults EXCEPT ![f] = @ \o FileBatch(f).products]
    /\ fPc' = [fPc EXCEPT ![f] = "loop"]
    /\ UNCHANGED <<pipeVars, ruleVars, fnVars, mode, fProducts, fBatches, fBatchIdx,
                   fSemaphore, fItem, stats, fResult>>

\* the counts of lines 99-105 over the all_results of file f
FileCounts(f) ==
    [total_processed |-> Len(fResults[f]),
     successful |-> Cardinality({i \in SeqToSet(fResults[f]) :
                                    fProducts[f][i].status = "COMPLETED"}),
     rejected |-> Cardinality({i \in SeqToSet(fResults[f]) :
                                  fProducts[f][i].status = "REJECTED"}),
     failed |-> Cardinality({i \in SeqToSet(fResults[f]) : fProducts[f][i].status = "FAILED"})]

\* lines 91-122: the output is written, the counts are stored into self.stats and the
\* dict returned holds self.stats itself; when the output fails the except branch
\* returns self.stats as it is
FileFinish(f) ==
    /\ fPc[f] = "loop"
    /\ fBatchIdx[f] = Len(fBatches[f])
    /\ \E output_ok \in BOOLEAN :
           /\ stats' = IF output_ok THEN FileCounts(f) ELSE stats
           /\ fResult' = [fResult EXCEPT ![f] = IF output_ok THEN <<"success">>
                                                 ELSE <<"error">>]
    /\ fPc' = [fPc EXCEPT ![f] = "done"]
    /\ UNCHANGED <<pipeVars, ruleVars, fnVars, mode, fProducts, fBatches, fBatchIdx,
                   fSemaphore, fItem, fResults>>

\* result["statistics"] of the dict returned for file f: the dict self.stats
FileStatistics(f) == stats

MultiNext ==
    \/ \E f \in Files : FileStart(f)
    \/ \E f \in Files : FileStartBatch(f)
    \/ \E f \in Files, i \in 1..FileRows : FileAcquire(f, i)
    \/ \E f \in Files, i \in 1..FileRows : FileItemEnd(f, i)
    \/ \E f \in Files : FileFinishBatch(f)
    \/ \E f \in Files : FileFinish(f)

MultiSpec == MultiInit /\ [][MultiNext]_vars

-----------------------------------------------------------------------------
(* Properties *)

Last(s) == s[Len(s)]

Status(p) == products[p].status

\* position of the batch a product belongs to
BatchOf(p) == CHOOSE k \in 1..Len(batches) : p \in SeqToSet(batches[k].products)

\* C1: the statuses assigned to a product are PENDING, then PROCESSING, then one terminal
\* status, in that order and each at most once; the status field is the last one assigned.
\* So PROCESSING is only entered from PENDING, a terminal status only from PROCESSING and
\* only once, and nothing follows a terminal status, in every interleaving.
C1_StatusPath ==
    \A p \in Idx :
        /\ trail[p] \in {<<"PENDING">>, <<"PENDING", "PROCESSING">>}
                        \cup {<<"PENDING", "PROCESSING", t>> : t \in Terminal}
        /\ Status(p) = Last(trail[p])

\* two pipelines of a batch have ended differently while a third is still running
C1_Witness ==
    \E p, q, r \in Idx :
        /\ trail[p] = <<"PENDING", "PROCESSING", "COMPLETED">>
        /\ trail[q] = <<"PENDING", "PROCESSING", "FAILED">>
        /\ trail[r] = <<"PENDING", "PROCESSING">>

\* C2: in every reachable state a COMPLETED product has an okpd2_code and a
\* normalized_unit, a REJECTED product has a comment, equal to the rejection_reason that
\* validation returned for it, and a FAILED product has an error_message.
C2_TerminalFields ==
    \A p \in Idx :
        /\ Status(p) = "COMPLETED" =>
              products[p].okpd2_code # None /\ products[p].normalized_unit # None
        /\ Status(p) = "REJECTED" =>
              /\ products[p].comment # None
              /\ products[p].comment = returned_reason[p]
        /\ Status(p) = "FAILED" => products[p].error_message # None

\* one run holds a product of each terminal status
C2_Witness ==
    \E p, q, r \in Idx :
        Status(p) = "COMPLETED" /\ Status(q) = "REJECTED" /\ Status(r) = "FAILED"

\* the candidates a product would collect with nothing cached by its siblings
AloneCandidates(p) ==
    SearchLoop(generate_search_terms(products[p], research[p], batch.category),
               <<>>, <<>>).all_candidates

\* C3: a pipeline that raised, at whichever stage, ends FAILED with the text of its
\* exception as error_message; one that did not raise ends COMPLETED or REJECTED; what a
\* pipeline works with (its product, its stage results, the candidates it collects) is
\* what it would be without its siblings; and _process_batch returns the products of the
\* batch, one for one.
C3_Isolation ==
    /\ \A p \in Idx :
          /\ (pc[p] = "done" /\ raised[p] # None) =>
                Status(p) = "FAILED" /\ products[p].error_message = raised[p]
          /\ (pc[p] = "done" /\ raised[p] = None) => Status(p) \in {"COMPLETED", "REJECTED"}
          /\ Status(p) = "FAILED" => raised[p] # None
          /\ pc[p] = "suggest" => all_candidates[p] = AloneCandidates(p)
    /\ (mainPc = "loop" /\ batchIdx > 0) =>
          /\ Len(all_results) >= Len(batch.products)
          /\ SubSeq(all_results, Len(all_results) - Len(batch.products) + 1,
                    Len(all_results)) = batch.products
          /\ batch.processed_count + batch.failed_count = batch.total_count

\* a batch of three has returned: two items raised, at different stages, the third is
\* COMPLETED
C3_Witness ==
    /\ mainPc = "loop"
    /\ Len(batch.products) = 3
    /\ \E p, q, r \in SeqToSet(batch.products) :
          /\ raised[p] = <<"'list' object has no attribute 'get'">>
          /\ raised[q] = <<"object of type 'int' has no len()">>
          /\ Status(r) = "COMPLETED"

\* the first position of the input that has the category
FirstIndex(category) == CHOOSE i \in Idx :
    /\ products[i].category = category
    /\ \A j \in Idx : products[j].category = category => i <= j

\* the input positions grouped by category: the categories in the order of their first
\* product, the products of a category in input order
GroupedOrder ==
    CHOOSE out \in [Idx -> Idx] :
        /\ SeqToSet(out) = Idx
        /\ \A i, j \in Idx :
              i < j =>
                 \/ FirstIndex(products[out[i]].category)
                       < FirstIndex(products[out[j]].category)
                 \/ /\ products[out[i]].category = products[out[j]].category
                    /\ out[i] < out[j]

\* What process_file returns in place of the input order (C4): every product once,
\* grouped by category, whatever the completion order of the pipelines; the results
\* gathered so far are always the beginning of that list.
ReturnsGroupedOrder ==
    /\ mainPc # "start" =>
          all_results = SubSeq(GroupedOrder, 1, Len(all_results))
    /\ (mainPc = "done" /\ result.status = "success") => result.products = GroupedOrder

\* C4 as stated: the returned list is in the order of the parsed input
C4_InputOrder ==
    (mainPc = "done" /\ result.status = "success") =>
        result.products = [i \in Idx |-> i]

\* C5: never more than parallel_workers pipelines are between acquiring and releasing
\* the semaphore (equivalently, in status PROCESSING); the others wait.
C5_WorkerBound ==
    /\ Cardinality(InFlight) <= parallel_workers
    /\ Cardinality({p \in Idx : Status(p) = "PROCESSING"}) <= parallel_workers
    /\ semaphore = parallel_workers - Cardinality(InFlight)

\* every slot is taken and an item of the batch waits
C5_Witness ==
    /\ Cardinality(InFlight) = parallel_workers
    /\ \E p \in Idx : pc[p] = "waiting"

\* C6: no product of a later batch leaves PENDING before every product of every earlier
\* batch is COMPLETED, REJECTED or FAILED.
C6_BatchesSequential ==
    mainPc # "start" =>
        \A p, q \in Idx :
            (BatchOf(q) < BatchOf(p) /\ Status(p) # "PENDING") => Status(q) \in Terminal

\* a product of a later batch is being processed after an earlier batch of two ended
C6_Witness ==
    \E p, q, r \in Idx :
        /\ mainPc # "start"
        /\ q # r
        /\ BatchOf(q) = BatchOf(r)
        /\ BatchOf(q) < BatchOf(p)
        /\ Status(p) = "PROCESSING"
        /\ Status(q) = "REJECTED"

\* the texts of the exceptions that bad data makes the stages raise
DataErrors ==
    {<<"'list' object has no attribute 'get'">>,
     <<"'int' object has no attribute 'lower'">>,
     <<"'code'">>,
     <<"object of type 'int' has no len()">>}

AtRest ==
    /\ ~CanCategorize
    /\ ~CanStartBatch
    /\ \A p \in Idx : ~CanAcquire(p) /\ (\A stage \in CallStates : ~Awaited(p, stage))
    /\ ~CanFinishBatch
    /\ ~CanFinish

\* C8 as stated, for a run with one stuck call that has come to rest: the run has
\* returned, every product has a terminal status and the product whose call is stuck is
\* FAILED.
C8_StuckCallFails ==
    (Cardinality({p \in Idx : hung[p]}) = 1 /\ AtRest) =>
        /\ mainPc = "done"
        /\ \A p \in Idx : Status(p) \in Terminal /\ (hung[p] => Status(p) = "FAILED")

CanonicalReasons ==
    {REASON_OKPD2, REASON_MANUFACTURER, REASON_COLOR, REASON_SIZE, REASON_VARIABILITY,
     REASON_SPECS}

\* C9: the result of QualityValidationAgent.process holds the collected issues; with no
\* issue it is valid and has no rejection_reason; with an issue it is invalid and its
\* rejection_reason is a canonical reason or the generic prefix followed by the first
\* issue.
C9_Verdict ==
    vOut # NoneDict =>
        /\ vOut.issues = collect_issues(vIn.product, vIn.category, vIn.research_result,
                                        vIn.okpd2_result)
        /\ vOut.issues = <<>> => (vOut.is_valid /\ vOut.rejection_reason = None)
        /\ vOut.issues # <<>> =>
              /\ ~vOut.is_valid
              /\ vOut.rejection_reason # None
              /\ \/ vOut.rejection_reason \in CanonicalReasons
                 \/ vOut.rejection_reason = REASON_PREFIX \o vOut.issues[1]

\* an input was rejected with the generic reason
C9_Witness ==
    /\ vOut # NoneDict
    /\ ~vOut.is_valid
    /\ vOut.rejection_reason = REASON_PREFIX \o vOut.issues[1]

MentionsCode(issue) == \E k \in 1..Len(issue) : "OKPD2" \in Infixes(issue[k])
MentionsManufacturer(issue) ==
    \E k \in 1..Len(issue) : "proizvoditel" \in Infixes(LowerAtom(issue[k]))
MentionsVariability(issue) == \E k \in 1..Len(issue) : "variativnost" \in Infixes(issue[k])
MentionsSpecs(issue) == \E k \in 1..Len(issue) : "harakteristik" \in Infixes(issue[k])

\* the orderings of a list
PermsOf(list) ==
    {[i \in 1..Len(list) |-> list[f[i]]] : f \in Permutations(1..Len(list))}

\* C10: for a non-empty issue list the reason follows the priority code, manufacturer,
\* variability, specifications, else the generic prefix with the first issue; where one
\* of the four applies, every ordering of the list gives the same reason.
C10_Priority ==
    dReason # None =>
        LET S == SeqToSet(dIssues)
            code == \E i \in S : MentionsCode(i)
            manufacturer == \E i \in S : MentionsManufacturer(i)
            variability == \E i \in S : MentionsVariability(i)
            specs == \E i \in S : MentionsSpecs(i)
        IN /\ code => dReason = REASON_OKPD2
           /\ (~code /\ manufacturer) => dReason = REASON_MANUFACTURER
           /\ (~code /\ ~manufacturer /\ variability) =>
                 dReason \in {REASON_COLOR, REASON_SIZE, REASON_VARIABILITY}
           /\ (~code /\ ~manufacturer /\ ~variability /\ specs) => dReason = REASON_SPECS
           /\ (~code /\ ~manufacturer /\ ~variability /\ ~specs) =>
                 dReason = REASON_PREFIX \o dIssues[1]
           /\ (code \/ manufacturer \/ variability \/ specs) =>
                 \A list \in PermsOf(dIssues) : determine_rejection_reason(list) = dReason

\* a list that starts with a manufacturer issue and holds a code issue got the code
\* reason
C10_Witness ==
    /\ dReason = REASON_OKPD2
    /\ MentionsManufacturer(dIssues[1])
    /\ ~MentionsCode(dIssues[1])

\* the drawn research result has a range token in one of the size fields
HasSizeRange(research_result) ==
    /\ research_result # NoneDict
    /\ \E f \in SeqToSet(size_fields) :
          HasRangeToken(Get(research_result.specifications, f, <<>>))

\* C11 as stated: when validation finds a range token in a size field and there is no
\* classification-code issue, no manufacturer issue and no colour issue, the rejection
\* reason is the size-variability reason.
C11_SizeReason ==
    (/\ vOut # NoneDict
     /\ HasSizeRange(vIn.research_result)
     /\ ~AnyContains(vOut.issues, "OKPD2")
     /\ ~AnyContainsLower(vOut.issues, "proizvoditel")
     /\ ~Contains(Join(vOut.issues), "cvet"))
        => vOut.rejection_reason = REASON_SIZE

\* C12 as stated: for a product of a known category and a classification result whose
\* code does not start with the okpd2_prefix configured for the category, validation
\* reports an issue, so the result is not valid.
C12_MismatchIsInvalid ==
    (/\ vOut # NoneDict
     /\ vIn.category # UNKNOWN
     /\ vIn.okpd2_result # NoneDict
     /\ ~StartsWith(vIn.okpd2_result.code, okpd2_prefix(vIn.category)))
        => ~vOut.is_valid

\* C19: when process_file has returned "success", total_processed is the number of
\* parsed products, successful / rejected / failed are the numbers of returned products
\* that are COMPLETED / REJECTED / FAILED, the three add up to total_processed, and
\* every returned product has a terminal status.
C19_Statistics ==
    (mainPc = "done" /\ result.status = "success") =>
        LET st == result.statistics
            Returned(status) ==
                {i \in 1..Len(result.products) : Status(result.products[i]) = status}
        IN /\ st.total_processed = Len(products)
           /\ Len(result.products) = Len(products)
           /\ st.successful = Cardinality(Returned("COMPLETED"))
           /\ st.rejected = Cardinality(Returned("REJECTED"))
           /\ st.failed = Cardinality(Returned("FAILED"))
           /\ st.total_processed = st.successful + st.rejected + st.failed
           /\ \A i \in 1..Len(result.products) : Status(result.products[i]) \in Terminal

C19_Witness ==
    /\ mainPc = "done"
    /\ result.status = "success"
    /\ result.statistics.successful = 1
    /\ result.statistics.rejected = 1
    /\ result.statistics.failed = 1

\* C20: a search term is stored into okpd2_cache at most once during the run, whatever
\* the interleaving of the pipelines that look the term up; the cache holds exactly the
\* terms stored, each with the value first stored for it.
C20_WriteOnce ==
    /\ \A i, j \in 1..Len(cache_writes) : i # j => cache_writes[i] # cache_writes[j]
    /\ DOMAIN okpd2_cache = SeqToSet(cache_writes)
    /\ \A t \in DOMAIN okpd2_cache : okpd2_cache[t] = scrape_classifikators(t)

\* two pipelines of one batch, both in flight, have looked up the same terms
C20_Witness ==
    \E p, q \in Idx :
        /\ p # q
        /\ pc[p] = "suggest" /\ pc[q] = "suggest"
        /\ generate_search_terms(products[p], research[p], batch.category)
              = generate_search_terms(products[q], research[q], batch.category)
        /\ cache_writes # <<>>

\* the research written to the product holds the complete specifications
HasCompleteResearch(p) ==
    /\ Keys(CompleteSpecs(UNKNOWN)) \subseteq Keys(products[p].specifications)
    /\ {"manufacturer", "model"} \subseteq Keys(products[p].specifications)

UnknownEnded(p) ==
    /\ products[p].category = UNKNOWN
    /\ Status(p) \in {"COMPLETED", "REJECTED"}
    /\ HasCompleteResearch(p)

C18_DefaultCode ==
    \E p \in Idx :
        /\ UnknownEnded(p)
        /\ products[p].okpd2_code = <<"00", "00", "00">>
        /\ products[p].comment = REASON_OKPD2

\* C13 as stated: _select_best_code with an empty candidate list returns, for a known
\* category, the okpd2_prefix configured for it at level 2 with confidence 0.3, and for
\* UNKNOWN the code 00.00.00 at level 1 with confidence 0.1.
C13_EmptyDefault ==
    (sOut # NoneDict /\ sIn.candidates = <<>>) =>
        IF sIn.category = UNKNOWN
        THEN sOut.code = <<"00", "00", "00">> /\ sOut.level = 1 /\ sOut.confidence = 10
        ELSE /\ sOut.code = okpd2_prefix(sIn.category)
             /\ sOut.level = 2
             /\ sOut.confidence = 30

\* what the code returns for an empty candidate list, whatever the category
EmptyGivesUnclassified ==
    (sOut # NoneDict /\ sIn.candidates = <<>>) =>
        sOut.code = <<"00", "00", "00">> /\ sOut.level = 1 /\ sOut.confidence = 10

\* text.isspace() or text empty: nothing but whitespace
IsBlank(name) == \A i \in 1..Len(name) : name[i] \in WhitespaceAtoms

\* C14: detect_category returns (UNKNOWN, 0.0) for the empty name and for every name
\* that holds whitespace only.
C14_BlankIsUnknown ==
    (nOut # None /\ IsBlank(nIn)) => nOut = <<UNKNOWN, 0>>

\* a name of whitespace only, two runs of it, has been detected
C14_Witness == nOut # None /\ nIn # <<>> /\ IsBlank(nIn) /\ Len(nIn) >= 2

\* the categories that are scored, in declaration order
Supported == SubSeq(ProductCategory, 1, 4)

\* min(1.0, 0.3 * patternMatches + 0.2 * keywordMatches) in exact arithmetic, in hundredths
ClampedScore(name, category) ==
    LET score == 30 * pattern_matches(normalize_text(name), category)
                 + 20 * keyword_matches(normalize_text(name), category)
    IN IF score < 100 THEN score ELSE 100

MaxClampedScore(name) ==
    LET scores == [i \in 1..4 |-> ClampedScore(name, Supported[i])]
    IN CHOOSE s \in {scores[i] : i \in 1..4} : \A i \in 1..4 : scores[i] <= s

FirstAttaining(name) ==
    LET scores == [i \in 1..4 |-> ClampedScore(name, Supported[i])]
        top == MaxClampedScore(name)
    IN Supported[CHOOSE i \in 1..4 :
                     scores[i] = top /\ \A j \in 1..(i - 1) : scores[j] # top]

\* C15 as stated: for a non-empty name detect_category returns (c, s), s the maximum over
\* the four categories of min(1.0, 0.3 * patternMatches + 0.2 * keywordMatches), s in
\* [0, 1], c the first category in declaration order that attains s when s >= 0.3 and
\* UNKNOWN when s < 0.3.  The returned s is compared up to the rounding of the double.
C15_MaxFirstDeclared ==
    (nOut # None /\ nIn # <<>>) =>
        /\ nOut[2] - MaxClampedScore(nIn) \in {-1, 0, 1}
        /\ nOut[2] \in 0..100
        /\ nOut[1] = IF MaxClampedScore(nIn) >= 30 THEN FirstAttaining(nIn) ELSE UNKNOWN

\* what the code returns: the same rule over the doubles the sums evaluate to
FloatMaxFirstDeclared ==
    (nOut # None /\ nIn # <<>>) =>
        LET score(c) == calculate_category_score(normalize_text(nIn), c)
        IN /\ \A i \in 1..4 : score(Supported[i]) <= nOut[2]
           /\ \E i \in 1..4 :
                  /\ score(Supported[i]) = nOut[2]
                  /\ \A j \in 1..(i - 1) : score(Supported[j]) < nOut[2]
                  /\ nOut[1] = IF nOut[2] >= 30 THEN Supported[i] ELSE UNKNOWN

\* the name holds at least two keywords of the category and no keyword of another one
OnlyKeywordsOf(name, category) ==
    /\ keyword_matches(name, category) >= 2
    /\ \A i \in 1..4 : Supported[i] # category => keyword_matches(name, Supported[i]) = 0

\* category d is preferred to category c for the name: a higher score, or the same score
\* and an earlier declaration
Preferred(name, d, c) ==
    LET score(x) == calculate_category_score(normalize_text(name), x)
        pos(x) == CHOOSE i \in 1..4 : Supported[i] = x
    IN score(d) > score(c) \/ (score(d) = score(c) /\ pos(d) < pos(c))

\* C16: a name with at least two keywords of category C and no keyword of another
\* category is detected (not UNKNOWN) with confidence at least 0.3; the category is C
\* unless the regex patterns give another category a higher score, or the same score to
\* a category declared before C.
C16_KeywordsDetect ==
    \A i \in 1..4 :
        (nOut # None /\ OnlyKeywordsOf(nIn, Supported[i])) =>
            /\ nOut[1] # UNKNOWN
            /\ nOut[2] >= 30
            /\ nOut[1] = Supported[i]
               <=> ~ \E j \in 1..4 : j # i /\ Preferred(nIn, Supported[j], Supported[i])

\* two steel keywords, no other keyword, a pattern of another category matched, and the
\* name detected as steel
C16_Witness ==
    /\ nOut # None
    /\ OnlyKeywordsOf(nIn, "STEEL_CIRCLE")
    /\ pattern_matches(normalize_text(nIn), "HAMMER") > 0
    /\ nOut[1] = "STEEL_CIRCLE"

\* C16 as stated: such a name is detected as C, whatever patterns it matches
C16_KeywordsDecide ==
    \A i \in 1..4 :
        (nOut # None /\ OnlyKeywordsOf(nIn, Supported[i])) =>
            nOut[1] = Supported[i] /\ nOut[2] >= 30

\* C17 as stated: the five names of the self-test are detected as PRESSURE_SENSOR,
\* STEEL_CIRCLE, HAMMER, TIRE and UNKNOWN, in this order.
C17_SampleNames ==
    \A i \in 1..5 :
        (nOut # None /\ nIn = test_products[i]) => nOut[1] = ProductCategory[i]

\* the four of the five names that are detected as expected
SampleNamesButHammer ==
    \A i \in {1, 2, 4, 5} :
        (nOut # None /\ nIn = test_products[i]) => nOut[1] = ProductCategory[i]

\* C21: the suggestions never change the verdict: is_valid, issues and rejection_reason
\* are the same whatever the suggestion oracle answers; when the oracle call fails on an
\* invalid result the suggestions are the fixed list of two; a valid result has no
\* suggestions.
C21_SuggestionsAdvisory ==
    vOut # NoneDict =>
        /\ \A r \in SuggestionsResponses :
               LET o == process_validation(vIn.product, vIn.category, vIn.research_result,
                                           vIn.okpd2_result, r)
               IN /\ o.is_valid = vOut.is_valid
                  /\ o.issues = vOut.issues
                  /\ o.rejection_reason = vOut.rejection_reason
        /\ vOut.is_valid => vOut.suggestions = <<>>
        /\ (~vOut.is_valid /\ vIn.response.failed) =>
               vOut.suggestions = FALLBACK_SUGGESTIONS /\ Len(vOut.suggestions) = 2

\* an invalid result whose suggestion call failed
C21_Witness ==
    /\ vOut # NoneDict
    /\ ~vOut.is_valid
    /\ vIn.response.failed
    /\ vOut.suggestions = FALLBACK_SUGGESTIONS

\* a valid result: no suggestions
C21_ValidReached == vOut # NoneDict /\ vOut.is_valid /\ vOut.suggestions = <<>>

\* the places <<batch, position>> at which product i stands in the batches
PlacesOf(i) ==
    {<<k, j>> \in (1..Len(bOut.batches)) \X (1..batch_size) :
        j <= Len(bOut.batches[k].products) /\ bOut.batches[k].products[j] = i}

\* C22: grouping and batching partition the parsed list: every product stands in exactly
\* one batch, at one place, and that batch has the product's category; every batch has
\* between 1 and batch_size products; so one item pipeline task is made per product and
\* no two tasks work on the same product.
C22_Partition ==
    bOut # NoneDict =>
        /\ \A i \in 1..Len(bOut.products) :
               /\ Cardinality(PlacesOf(i)) = 1
               /\ \A pl \in PlacesOf(i) :
                      bOut.batches[pl[1]].category = bOut.products[i].category
        /\ \A k \in 1..Len(bOut.batches) :
               /\ Len(bOut.batches[k].products) \in 1..batch_size
               /\ bOut.batches[k].total_count = Len(bOut.batches[k].products)
               /\ \A j \in 1..Len(bOut.batches[k].products) :
                      bOut.batches[k].products[j] \in 1..Len(bOut.products)

\* a list of MaxRows products with a category that was split into two batches
C22_Witness ==
    /\ bOut # NoneDict
    /\ Len(bOut.products) = MaxRows
    /\ \E k \in 1..Len(bOut.batches) :
           /\ k < Len(bOut.batches)
           /\ bOut.batches[k].category = bOut.batches[k + 1].category

\* the item pipelines in flight, over all files
FilesInFlight == {<<f, i>> \in Files \X (1..FileRows) : fItem[f][i] = "running"}

\* C23 as stated: when process_multiple_files runs several files on one processor, the
\* number of item pipelines in flight over all files never exceeds parallel_workers.
C23_WorkerBoundAllFiles ==
    mode = "gathered" => Cardinality(FilesInFlight) <= parallel_workers

\* what the code bounds: the pipelines in flight of each file
WorkerBoundPerFile ==
    \A f \in Files :
        Cardinality({i \in 1..FileRows : fItem[f][i] = "running"}) <= parallel_workers

\* C27 as stated: the statistics of the result returned for a file are the counts over
\* that file's own products, and stay so while other files are processed.
C27_StatisticsPerFile ==
    \A f \in Files : fResult[f] = <<"success">> => FileStatistics(f) = FileCounts(f)

\* the scores _score_candidate gives the candidates of the drawn input, as a tuple
RECURSIVE ScoresFrom(_)
ScoresFrom(i) ==
    IF i > Len(sIn.candidates) THEN <<>>
    ELSE <<score_candidate(sIn.candidates[i], sIn.product, sIn.category,
                           sIn.research_result)>> \o ScoresFrom(i + 1)

Scores == ScoresFrom(1)

\* the rank of each candidate: one more than the number of candidates with a higher
\* score, or with the same score and an earlier place in the list
RankOf(sc, i) ==
    1 + Cardinality({j \in 1..Len(sc) : sc[j] > sc[i] \/ (sc[j] = sc[i] /\ j < i)})

\* the place in the list of the candidate of rank r
AtRank(sc, r) == CHOOSE i \in 1..Len(sc) : RankOf(sc, i) = r

\* C24: for a non-empty candidate list _select_best_code returns the candidate of
\* maximum score, the first of the list among those of that score; alternative_codes
\* holds the candidates of ranks 2 to 4, by descending score and, for equal scores, in
\* input order; the confidence is min(top score, 1.0).
C24_StableRanking ==
    (sOut # NoneDict /\ sIn.candidates # <<>>) =>
        LET n == Len(sIn.candidates)
            last == IF n < 4 THEN n ELSE 4
            sc == Scores
            top == AtRank(sc, 1)
        IN /\ \A j \in 1..n : sc[j] <= sc[top]
           /\ \A j \in 1..(top - 1) : sc[j] < sc[top]
           /\ sOut.code = sIn.candidates[top].code
           /\ sOut.name = sIn.candidates[top].name
           /\ sOut.confidence = IF sc[top] < 100 THEN sc[top] ELSE 100
           /\ Len(sOut.alternative_codes) = last - 1
           /\ \A r \in 2..last :
                  LET i == AtRank(sc, r)
                  IN sOut.alternative_codes[r - 1] =
                         [code |-> sIn.candidates[i].code,
                          name |-> sIn.candidates[i].name,
                          score |-> sc[i]]

\* five candidates: three alternatives, two of them different codes of one score, and
\* the top score above theirs
C24_Witness ==
    /\ sOut # NoneDict
    /\ Len(sIn.candidates) = MaxCandidates
    /\ Len(sOut.alternative_codes) = 3
    /\ sOut.alternative_codes[1].score < sOut.confidence
    /\ sOut.alternative_codes[1].score = sOut.alternative_codes[2].score
    /\ sOut.alternative_codes[1].code # sOut.alternative_codes[2].code

\* two different codes share the top score: the first of the list is returned
C24_TopTie ==
    /\ sOut # NoneDict
    /\ Len(sIn.candidates) = 2
    /\ Scores[1] = Scores[2]
    /\ sIn.candidates[1].code # sIn.candidates[2].code
    /\ sOut.code = sIn.candidates[1].code

\* a top score above 1.0 is returned as confidence 1.0
C24_Clamped ==
    /\ sOut # NoneDict
    /\ sIn.candidates # <<>>
    /\ \E i \in 1..Len(sIn.candidates) : Scores[i] > 100
    /\ sOut.confidence = 100

\* C25 as stated: _get_code_level returns 4 for a code of 4 segments, 3 for one of 3
\* segments whose third is not "00", 2 for one of 2 segments whose second is not "00",
\* and 1 otherwise.
C25_LevelBySegments ==
    lOut # 0 =>
        lOut = IF Len(lIn) = 4 THEN 4
               ELSE IF Len(lIn) = 3 /\ lIn[3] # "00" THEN 3
               ELSE IF Len(lIn) = 2 /\ lIn[2] # "00" THEN 2
               ELSE 1

\* what the code returns: the third segment is looked at first, whatever the length,
\* then the second
LevelByThirdThenSecond ==
    lOut # 0 =>
        lOut = IF Len(lIn) >= 3 /\ lIn[3] # "00" THEN Len(lIn)
               ELSE IF Len(lIn) >= 2 /\ lIn[2] # "00" THEN 2
               ELSE 1

\* _process_batch has returned for the batch held in `batch`
BatchReturned == mainPc \in {"loop", "done"} /\ batchIdx >= 1

FailedInBatch == {i \in 1..Len(batch.products) : products[batch.products[i]].status = "FAILED"}

\* C26 as stated: after _process_batch has completed for a batch of N products,
\* processed_count = N and failed_count is the number of products of the batch that
\* ended FAILED, so that success_rate is the fraction of products that did not fail.
C26_BatchCounters ==
    BatchReturned =>
        /\ batch.processed_count = Len(batch.products)
        /\ batch.failed_count = Cardinality(FailedInBatch)

\* what the code leaves: every product counted as processed, none as failed
BatchCountersNoFailures ==
    BatchReturned =>
        /\ batch.processed_count = Len(batch.products)
        /\ batch.failed_count = 0

\* a batch with a FAILED product has returned
C26_FailedReached == BatchReturned /\ FailedInBatch # {}

\* C28: when the pipeline of a product fails because the research, the classification
\* or the validation call raised, the product's okpd2_code, normalized_unit, comment and
\* specifications are those of the parsed row; only status and error_message (and the
\* timestamp) have changed.
C28_FailureFrame ==
    \A p \in Idx :
        raised[p] # None =>
            LET before == CHOOSE row \in SampleRows :
                              /\ row.original_name = products[p].original_name
                              /\ row.original_unit = products[p].original_unit
            IN /\ products[p].okpd2_code = before.okpd2_code
               /\ products[p].normalized_unit = before.normalized_unit
               /\ products[p].comment = before.comment
               /\ products[p].specifications = before.specifications
               /\ products[p] = [before EXCEPT !.status = "FAILED",
                                               !.error_message = raised[p]]

\* one pipeline raised and left its product as parsed, another one returned and wrote
\* its result fields
C28_Witness ==
    \E p, q \in Idx :
        /\ raised[p] # None
        /\ products[p].specifications = <<>>
        /\ products[p].okpd2_code = None
        /\ raised[q] = None
        /\ products[q].okpd2_code # None
        /\ products[q].specifications # <<>>

-----------------------------------------------------------------------------
(* What a COMPLETED product carries *)

\* a code written NN.NN.NN or NN.NN.NN.NNN, and nothing else
HasCodeFormat(code) ==
    /\ Len(code) \in {3, 4}
    /\ \A i \in 1..Len(code) : DigitCount(code[i]) = (IF i = 4 THEN 3 ELSE 2)

\* the category, the units and the classification level and confidence of a COMPLETED
\* product
CompletedButFormat(p) ==
    LET product == products[p]
        units == unit_validation(unit_keys(product.category))
    IN /\ product.category # "UNKNOWN"
       /\ unit_keys(product.category) # "<None>"
       /\ Lower(product.original_unit) \in {Lower(u) : u \in SeqToSet(units)}
       /\ product.normalized_unit = units[1]
       /\ product.normalized_unit
            = (IF product.category = "STEEL_CIRCLE" THEN <<"tonna">> ELSE <<"shtuka">>)
       /\ returned_okpd2[p] # NoneDict
       /\ returned_okpd2[p].code = product.okpd2_code
       /\ returned_okpd2[p].level >= 3
       /\ returned_okpd2[p].confidence >= HALF

\* C29: in every reachable state a product with status COMPLETED has a category other
\* than UNKNOWN, an original unit that belongs, case-insensitively, to the unit list of its
\* category, the first entry of that list as normalized_unit ("shtuka", or "tonna" for
\* STEEL_CIRCLE), and an okpd2_code of the format NN.NN.NN or NN.NN.NN.NNN whose
\* classification has level >= 3 and confidence >= 0.5.
C29_CompletedProduct ==
    \A p \in Idx :
        Status(p) = "COMPLETED" =>
            CompletedButFormat(p) /\ HasCodeFormat(products[p].okpd2_code)

\* the same without the code format
CompletedCategoryUnitLevel ==
    \A p \in Idx : Status(p) = "COMPLETED" => CompletedButFormat(p)

\* a product is COMPLETED with a unit that had to be normalized
C29_CompletedReached ==
    \E p \in Idx :
        /\ Status(p) = "COMPLETED"
        /\ products[p].original_unit # products[p].normalized_unit
        /\ HasCodeFormat(products[p].okpd2_code)

-----------------------------------------------------------------------------
(* Termination of process_file when every call returns or raises *)

\* the steps of a run none of whose calls stays unanswered
LiveNext ==
    \/ Categorize
    \/ StartBatch
    \/ \E p \in Idx : Acquire(p)
    \/ \E p \in Idx : ExtractReturn(p)
    \/ \E p \in Idx : AnalyzeReturn(p)
    \/ \E p \in Idx : SuggestReturn(p)
    \/ \E p \in Idx : SuggestionsReturn(p)
    \/ FinishBatch
    \/ Finish

\* The event loop runs a task that is ready, a call that is awaited returns or raises,
\* and the semaphore wakes its first waiter: weak fairness of LiveNext.  The guards of
\* the actions are written out in AtRest, so ENABLED <<LiveNext>>_vars is ~AtRest, and
\* every step of LiveNext changes the state, so <<LiveNext>>_vars is <<TRUE>>_vars.
LiveFairness == ([]<>AtRest) \/ ([]<><<TRUE>>_vars)

LiveSpec == Init /\ [][LiveNext]_vars /\ LiveFairness

\* the run has returned and every product is COMPLETED, REJECTED or FAILED
Finished == mainPc = "done" /\ \A p \in Idx : Status(p) \in Terminal

\* C30: when every external call returns or raises and the semaphore wakes its waiters in
\* turn, process_file over a finite list of products eventually returns and every product
\* eventually is COMPLETED, REJECTED or FAILED and stays so; no product remains PENDING or
\* PROCESSING.
C30_Terminates == <>[]Finished

\* a run of more than one batch has returned, with a product whose pipeline returned
\* and one whose pipeline raised
C30_Witness ==
    /\ Finished
    /\ Len(batches) >= 2
    /\ \E p \in Idx : Status(p) = "COMPLETED"
    /\ \E p \in Idx : Status(p) = "FAILED"

\* a run whose single batch holds more products than parallel_workers has returned
C30_WaitedReached ==
    /\ Finished
    /\ Len(batches) = 1
    /\ Len(batches[1].products) > parallel_workers

\* a state at rest is a finished one
RestIsFinished == AtRest => Finished

\* no step leaves a state at rest
RestIsRest == [][~AtRest]_vars

====
